---- MODULE Spec2Model ----
(***************************************************************************)
(* Unified routing: the target health-state machine (state_manager.go),   *)
(* the health checker with its per-target timers and on-request probes    *)
(* (health_checker.go) and the route activity tracker.                    *)
(*                                                                         *)
(* Time is kept relative to the current instant, in units of 10 seconds:  *)
(* a stored instant (CooldownEndsAt, a timer's due time) is the number of *)
(* units left until it, 0 once it is reached or passed; Tick moves the    *)
(* clock by one unit.  Every comparison of the code is against now        *)
(* (time.Until, now.Before, time.Since), so nothing else is needed.       *)
(***************************************************************************)
EXTENDS Integers, Sequences, FiniteSets, Bags, TLC

VARIABLES
    states,           \* StateStore: target id -> TargetState (a Go map)
    pipeline,         \* the route's pipeline: target id -> Target.Enabled
    lastRequest,      \* RouteActivityTracker.last for the route: <<>> or <<age>>
    running,          \* DefaultHealthChecker.running
    timers,           \* the time.AfterFunc timers alive, a bag; the timer that
                      \* scheduledTimers[t] points to is the one of target t
                      \* whose field scheduled is TRUE
    probes,           \* the goroutines of on-request sweeps, a bag
    mu,               \* DefaultStateManager.mu: <<>> or <<the call holding it>>
    calls,            \* the calls under way: call id -> its position
    requests,         \* StateStore, the counters of the TargetStates:
                      \* target id -> TotalRequests, SuccessfulRequests
    layers,           \* the route's pipeline as stored: Pipeline.Layers
    dispatch,         \* the dispatch of one client request under way, or <<>>
    args,             \* the arguments of a function under study, or <<>>
    result,           \* what it returned: <<>> or <<value>>
    config,           \* ConfigStore: settings, health-check config, routes and
                      \* pipelines, or <<>>
    events,           \* the ConfigChangeEvents notified so far
    logger,           \* the DetailedRequestLogger, its channels and its writer,
                      \* or <<>>
    files,            \* the detail files of the logs directory, oldest first
    gin               \* the gin.Context of one request under each configuration
                      \* of the two log flags, or <<>>

\* The variables of the health checker and of what it reads.
checkerVars == <<states, pipeline, lastRequest, running, timers, probes>>

\* The variables only the specifications after Spec move.
aux == <<mu, calls, requests, layers, dispatch, args, result,
         config, events, logger, files, gin>>

\* The variables of the configuration service and of the request logger.
serviceVars == <<config, events, logger, files, gin>>

vars == <<checkerVars, aux>>

----------------------------------------------------------------------------
(* Bounds *)

MaxTimers == 2
MaxProbes == 1
MaxFailures == 2
MaxCalls == 3
MaxLevel == 3
MaxChain == 2
MaxRouteCalls == 2
MaxEvents == 3
MaxLogCalls == 4
MaxRecorderCalls == 3
MaxDirFiles == 3

(* Program constants, in units of 10 s *)

CheckInterval == 3
RouteActivityWindow == 2

(* Constants of the detailed request logger, scaled down: the source has a
   channel of 256 records, a cleanup every 20 writes, 500 files and 20 MB *)

detailedWriteBufferSize == 2
cleanupInterval == 2
defaultDetailedMaxFiles == 2
defaultDetailedMaxSizeMB == 3

Targets == {"t1"}
Durations == {1, CheckInterval}

StatusHealthy == "healthy"
StatusCooling == "cooling"
StatusChecking == "checking"

Nil == <<>>
Ptr(v) == <<v>>
Deref(p) == p[1]

----------------------------------------------------------------------------
(* Go maps *)

MapSet(m, k, v) == [x \in (DOMAIN m) \cup {k} |-> IF x = k THEN v ELSE m[x]]
MapDelete(m, k) == [x \in (DOMAIN m) \ {k} |-> m[x]]

(* Bags of goroutines and timers *)

BagAdd(b, x) == b (+) SetToBag({x})
BagRemove(b, x) == b (-) SetToBag({x})
BagReplace(b, x, y) == BagAdd(BagRemove(b, x), y)

----------------------------------------------------------------------------
(* TargetState and the StateStore *)

\* The fields of TargetState the transitions and the checker read; the
\* timestamps, the failure reason and the two request totals are write-only
\* bookkeeping and are left out.
NewTargetState(status) ==
    [status |-> status, consecutive_failures |-> 0, cooldown_ends_at |-> Nil]

\* StateStore.GetTargetState: an entry, or the healthy default when missing.
GetTargetState(s, t) ==
    IF t \in DOMAIN s THEN s[t] ELSE NewTargetState(StatusHealthy)

SetTargetState(s, t, state) == MapSet(s, t, state)

DeleteTargetState(s, t) == MapDelete(s, t)

----------------------------------------------------------------------------
(* StateManager transitions: each maps the store to the store it leaves *)

RecordSuccess(s, t) ==
    LET state == GetTargetState(s, t) IN
    SetTargetState(s, t,
        [state EXCEPT !.status = StatusHealthy,
                      !.consecutive_failures = 0,
                      !.cooldown_ends_at = Nil])

RecordFailure(s, t) ==
    LET state == GetTargetState(s, t) IN
    SetTargetState(s, t,
        [state EXCEPT !.consecutive_failures = @ + 1])

StartCooldownTimed(s, t) ==
    LET state == GetTargetState(s, t) IN
    SetTargetState(s, t,
        [state EXCEPT !.status = StatusCooling,
                      !.cooldown_ends_at = Ptr(CheckInterval)])

\* A transition that starts the cooldown and forgets the cooldown end.
StartCooldownUntimedKeepsEnd(s, t) ==
    LET state == GetTargetState(s, t) IN
    SetTargetState(s, t, [state EXCEPT !.status = StatusCooling])

StartCooldownUntimed(s, t) ==
    LET state == GetTargetState(s, t) IN
    SetTargetState(s, t,
        [state EXCEPT !.status = StatusCooling,
                      !.cooldown_ends_at = Nil])

StartChecking(s, t) ==
    LET state == GetTargetState(s, t) IN
    SetTargetState(s, t,
        [state EXCEPT !.status = StatusChecking,
                      !.cooldown_ends_at = Nil])

\* A transition that sets the next check and forgets to set the status.
SetCooldownNextCheckInKeepsStatus(s, t, d) ==
    LET state == GetTargetState(s, t) IN
    IF state.status # StatusCooling /\ state.status # StatusChecking
    THEN s
    ELSE SetTargetState(s, t, [state EXCEPT !.cooldown_ends_at = Ptr(d)])

SetCooldownNextCheckIn(s, t, d) ==
    LET state == GetTargetState(s, t) IN
    IF state.status # StatusCooling /\ state.status # StatusChecking
    THEN s
    ELSE SetTargetState(s, t,
            [state EXCEPT !.status = StatusCooling,
                          !.cooldown_ends_at = Ptr(d)])

\* A transition that makes the target healthy and forgets the cooldown end.
EndCooldownKeepsEnd(s, t) ==
    LET state == GetTargetState(s, t) IN
    SetTargetState(s, t, [state EXCEPT !.status = StatusHealthy])

EndCooldown(s, t) ==
    LET state == GetTargetState(s, t) IN
    SetTargetState(s, t,
        [state EXCEPT !.status = StatusHealthy,
                      !.cooldown_ends_at = Nil])

ResetTarget(s, t) == SetTargetState(s, t, NewTargetState(StatusHealthy))

ForceCooldown(s, t) == StartCooldownUntimed(s, t)

InitializeTarget(s, t) == SetTargetState(s, t, NewTargetState(StatusHealthy))

RemoveTarget(s, t) == DeleteTargetState(s, t)

\* RecordFailure counts without limit; the model stops at MaxFailures.
CanFail(s, t) == GetTargetState(s, t).consecutive_failures < MaxFailures

----------------------------------------------------------------------------
(* Configuration and route activity *)

\* The targets the pipelines hold, each enabled or not; none once the route
\* is deleted or before its pipeline is set.
Pipelines ==
    UNION {[T -> BOOLEAN] : T \in SUBSET Targets}

\* getRouteIDForTarget: whether some route's pipeline holds the target.
HasRoute(t) == t \in DOMAIN pipeline

\* RouteActivityTracker.IsProcessing for the route of target t ("" when none).
IsProcessing(t) ==
    /\ HasRoute(t)
    /\ lastRequest # Nil
    /\ Deref(lastRequest) < RouteActivityWindow

----------------------------------------------------------------------------
(* Health checker: timers *)

TimedCooling(state) ==
    state.status = StatusCooling /\ state.cooldown_ends_at # Nil

NewTimer(t, delay) ==
    [target |-> t, due |-> delay, pc |-> "pending", late |-> FALSE, scheduled |-> TRUE]

\* The timers scheduledTimers[t] points to: none or one.
ScheduledTimers(tm, t) == {r \in BagToSet(tm) : r.target = t /\ r.scheduled}

\* delete(h.scheduledTimers, t): the timer itself is left as it is.
DeleteEntry(tm, t) ==
    IF ScheduledTimers(tm, t) = {} THEN tm
    ELSE LET r == CHOOSE x \in ScheduledTimers(tm, t) : TRUE
         IN  BagReplace(tm, r, [r EXCEPT !.scheduled = FALSE])

\* time.Timer.Stop on the timer of the map entry, the entry then dropped or
\* overwritten: a timer that has not fired yet never fires; one that has fired
\* already runs its callback all the same.
StopTimer(tm, t) ==
    IF ScheduledTimers(tm, t) = {} THEN tm
    ELSE LET r == CHOOSE x \in ScheduledTimers(tm, t) : TRUE
         IN  IF r.pc = "pending"
             THEN BagRemove(tm, r)
             ELSE BagReplace(tm, r, [r EXCEPT !.scheduled = FALSE])

\* The timers ScheduleTargetCheck(t) leaves, given the timers and the store.
ScheduleTargetCheck(tm, s, t) ==
    LET state == GetTargetState(s, t) IN
    IF ~TimedCooling(state)
    THEN tm
    ELSE BagAdd(StopTimer(tm, t), NewTimer(t, Deref(state.cooldown_ends_at)))

RECURSIVE ScheduleAll(_, _, _)
ScheduleAll(tm, s, T) ==
    IF T = {} THEN tm
    ELSE LET t == CHOOSE x \in T : TRUE
         IN  ScheduleAll(ScheduleTargetCheck(tm, s, t), s, T \ {t})

\* scheduleExistingCoolingTargets: ListTargetStates, then one call per timed-cooling state.
ScheduleExistingCoolingTargets(tm, s) ==
    ScheduleAll(tm, s, {t \in DOMAIN s : TimedCooling(s[t])})

\* Stop's loop: every timer of the map is stopped and its entry deleted.
RECURSIVE StopAll(_, _)
StopAll(tm, T) ==
    IF T = {} THEN tm
    ELSE LET t == CHOOSE x \in T : TRUE IN StopAll(StopTimer(tm, t), T \ {t})

\* The model holds at most MaxTimers timers at a time.
Fits(tm) == BagCardinality(tm) <= MaxTimers

\* The number of timers of t that will still fire: not stopped, not fired yet.
LiveTimers(tm, t) ==
    BagCardinality([r \in {x \in BagToSet(tm) : x.target = t /\ x.pc = "pending"}
                      |-> tm[r]])

\* No configuration service and no request logger.
ServiceInit ==
    /\ config = Nil
    /\ events = <<>>
    /\ logger = Nil
    /\ gin = Nil
    /\ files = <<>>

\* No call under way, no counter stored, no dispatch, no function applied.
AuxInit ==
    /\ mu = Nil
    /\ calls = <<>>
    /\ requests = <<>>
    /\ layers = <<>>
    /\ dispatch = Nil
    /\ args = Nil
    /\ result = Nil
    /\ ServiceInit

----------------------------------------------------------------------------
(* Initial state: nothing stored, the checker not started, one pipeline *)

Init ==
    /\ states = <<>>
    /\ pipeline \in Pipelines
    /\ lastRequest = Nil
    /\ running = FALSE
    /\ timers = EmptyBag
    /\ probes = EmptyBag
    /\ AuxInit

----------------------------------------------------------------------------
(* StateManager calls made by the engine and the management API *)

CallRecordSuccess(t) ==
    /\ states' = RecordSuccess(states, t)
    /\ UNCHANGED <<pipeline, lastRequest, running, timers, probes>>
    /\ UNCHANGED aux

CallRecordFailure(t) ==
    /\ CanFail(states, t)
    /\ states' = RecordFailure(states, t)
    /\ UNCHANGED <<pipeline, lastRequest, running, timers, probes>>
    /\ UNCHANGED aux

CallStartCooldownTimed(t) ==
    /\ states' = StartCooldownTimed(states, t)
    /\ UNCHANGED <<pipeline, lastRequest, running, timers, probes>>
    /\ UNCHANGED aux

CallStartCooldownUntimed(t) ==
    /\ states' = StartCooldownUntimed(states, t)
    /\ UNCHANGED <<pipeline, lastRequest, running, timers, probes>>
    /\ UNCHANGED aux

CallStartChecking(t) ==
    /\ states' = StartChecking(states, t)
    /\ UNCHANGED <<pipeline, lastRequest, running, timers, probes>>
    /\ UNCHANGED aux

CallSetCooldownNextCheckIn(t, d) ==
    /\ states' = SetCooldownNextCheckIn(states, t, d)
    /\ UNCHANGED <<pipeline, lastRequest, running, timers, probes>>
    /\ UNCHANGED aux

CallEndCooldown(t) ==
    /\ states' = EndCooldown(states, t)
    /\ UNCHANGED <<pipeline, lastRequest, running, timers, probes>>
    /\ UNCHANGED aux

CallResetTarget(t) ==
    /\ states' = ResetTarget(states, t)
    /\ UNCHANGED <<pipeline, lastRequest, running, timers, probes>>
    /\ UNCHANGED aux

CallForceCooldown(t) ==
    /\ states' = ForceCooldown(states, t)
    /\ UNCHANGED <<pipeline, lastRequest, running, timers, probes>>
    /\ UNCHANGED aux

CallInitializeTarget(t) ==
    /\ states' = InitializeTarget(states, t)
    /\ UNCHANGED <<pipeline, lastRequest, running, timers, probes>>
    /\ UNCHANGED aux

CallRemoveTarget(t) ==
    /\ states' = RemoveTarget(states, t)
    /\ UNCHANGED <<pipeline, lastRequest, running, timers, probes>>
    /\ UNCHANGED aux

----------------------------------------------------------------------------
(* Configuration, activity, clock *)

UpdatePipeline(p) ==
    /\ pipeline' = p
    /\ UNCHANGED <<states, lastRequest, running, timers, probes>>
    /\ UNCHANGED aux

Mark ==
    /\ lastRequest' = Ptr(0)
    /\ UNCHANGED <<states, pipeline, running, timers, probes>>
    /\ UNCHANGED aux

Older(p) == IF p = Nil \/ Deref(p) = 0 THEN p ELSE Ptr(Deref(p) - 1)

OlderTimer(r) ==
    IF r.pc = "pending"
    THEN [r EXCEPT !.due = IF @ = 0 THEN 0 ELSE @ - 1]
    ELSE IF r.pc = "probe" THEN [r EXCEPT !.late = TRUE] ELSE r

Tick ==
    /\ states' = [t \in DOMAIN states |->
                    [states[t] EXCEPT !.cooldown_ends_at = Older(@)]]
    /\ timers' = BagOfAll(OlderTimer, timers)
    /\ lastRequest' = IF lastRequest = Nil \/ Deref(lastRequest) >= RouteActivityWindow
                      THEN lastRequest
                      ELSE Ptr(Deref(lastRequest) + 1)
    /\ UNCHANGED <<pipeline, running, probes>>
    /\ UNCHANGED aux

----------------------------------------------------------------------------
(* Health checker: probes *)

\* CheckTarget once the target is found: run the probe, record its result.
CheckTarget(s, t, healthy) ==
    IF healthy THEN RecordSuccess(s, t) ELSE RecordFailure(s, t)

\* CheckTarget, CheckRoute or CheckAll asked for by the management API.
CallCheckTarget(t, healthy) ==
    /\ HasRoute(t)
    /\ ~healthy => CanFail(states, t)
    /\ states' = CheckTarget(states, t, healthy)
    /\ UNCHANGED <<pipeline, lastRequest, running, timers, probes>>
    /\ UNCHANGED aux

CallScheduleTargetCheck(t) ==
    /\ timers' = ScheduleTargetCheck(timers, states, t)
    /\ Fits(timers')
    /\ UNCHANGED <<states, pipeline, lastRequest, running, probes>>
    /\ UNCHANGED aux

Start ==
    /\ ~running
    /\ running' = TRUE
    /\ timers' = ScheduleExistingCoolingTargets(timers, states)
    /\ Fits(timers')
    /\ UNCHANGED <<states, pipeline, lastRequest, probes>>
    /\ UNCHANGED aux

Stop ==
    /\ running
    /\ running' = FALSE
    /\ timers' = StopAll(timers, Targets)
    /\ UNCHANGED <<states, pipeline, lastRequest, probes>>
    /\ UNCHANGED aux

----------------------------------------------------------------------------
(* The scheduled path: a timer fires and onTargetCheckDue runs *)

TimerFire(r) ==
    /\ BagIn(r, timers)
    /\ r.pc = "pending"
    /\ r.due = 0
    /\ timers' = BagReplace(timers, r, [r EXCEPT !.pc = "fired"])
    /\ UNCHANGED <<states, pipeline, lastRequest, running, probes>>
    /\ UNCHANGED aux

\* A callback that never goes on to probe.
DueProceedsNever(s, t) == FALSE

\* A callback that takes any cooling target, timed or not, for one to probe.
DueProceedsUntimedToo(s, t) == running /\ GetTargetState(s, t).status = StatusCooling

\* A callback that never asks whether the checker runs.
DueProceedsWhenStopped(s, t) == TimedCooling(GetTargetState(s, t))

\* Whether the callback goes on to probe: the checker runs and the target is
\* still in timed cooling.
DueProceeds(s, t) == running /\ TimedCooling(GetTargetState(s, t))

\* onTargetCheckDue up to the probe: the map entry of the target is dropped,
\* running and the state are read, the target is marked checking.
DueEnter(r) ==
    /\ BagIn(r, timers)
    /\ r.pc = "fired"
    /\ LET own == [r EXCEPT !.scheduled = FALSE]
           tm == BagAdd(DeleteEntry(BagRemove(timers, r), r.target), own)
       IN  IF DueProceeds(states, r.target)
           THEN /\ states' = StartChecking(states, r.target)
                /\ timers' = BagReplace(tm, own, [own EXCEPT !.pc = "probe"])
           ELSE /\ states' = states
                /\ timers' = BagRemove(tm, own)
    /\ UNCHANGED <<pipeline, lastRequest, running, probes>>
    /\ UNCHANGED aux

\* A callback that takes the two branches of the unhealthy case for each other.
DueOutcomeSwapped(s, t, found, healthy, processing) ==
    IF ~found THEN SetCooldownNextCheckIn(s, t, CheckInterval)
    ELSE IF healthy THEN EndCooldown(CheckTarget(s, t, TRUE), t)
    ELSE IF processing
         THEN StartCooldownUntimed(CheckTarget(s, t, FALSE), t)
         ELSE SetCooldownNextCheckIn(CheckTarget(s, t, FALSE), t, CheckInterval)

\* What onTargetCheckDue does to the store once CheckTarget has returned.
DueOutcome(s, t, found, healthy, processing) ==
    IF ~found THEN SetCooldownNextCheckIn(s, t, CheckInterval)
    ELSE IF healthy THEN EndCooldown(CheckTarget(s, t, TRUE), t)
    ELSE IF processing
         THEN SetCooldownNextCheckIn(CheckTarget(s, t, FALSE), t, CheckInterval)
         ELSE StartCooldownUntimed(CheckTarget(s, t, FALSE), t)

\* A callback that goes on to ScheduleTargetCheck whatever the probe said.
DueReschedulesAlways(found, healthy, processing) == TRUE

\* Whether onTargetCheckDue goes on to ScheduleTargetCheck.
DueReschedules(found, healthy, processing) ==
    ~found \/ (~healthy /\ processing)

\* The probe ends: CheckTarget returns (an error when no pipeline holds the
\* target) and the callback applies the result.
DueCheckTarget(r, healthy) ==
    /\ BagIn(r, timers)
    /\ r.pc = "probe"
    /\ (HasRoute(r.target) /\ ~healthy) => CanFail(states, r.target)
    /\ states' = DueOutcome(states, r.target, HasRoute(r.target), healthy,
                            IsProcessing(r.target))
    /\ timers' = IF DueReschedules(HasRoute(r.target), healthy, IsProcessing(r.target))
                 THEN BagReplace(timers, r, [r EXCEPT !.pc = "reschedule", !.late = FALSE])
                 ELSE BagRemove(timers, r)
    /\ UNCHANGED <<pipeline, lastRequest, running, probes>>
    /\ UNCHANGED aux

DueReschedule(r) ==
    /\ BagIn(r, timers)
    /\ r.pc = "reschedule"
    /\ timers' = ScheduleTargetCheck(BagRemove(timers, r), states, r.target)
    /\ Fits(timers')
    /\ UNCHANGED <<states, pipeline, lastRequest, running, probes>>
    /\ UNCHANGED aux

----------------------------------------------------------------------------
(* The on-request path: TriggerCheckUntimedCoolingTargets and its goroutines *)

\* A sweep that takes every cooling target, whatever its cooldown end.
EligibleWhateverEnd(state) == state.status = StatusCooling

\* Cooling, and untimed or already due (!now.Before(*CooldownEndsAt)).
Eligible(state) ==
    /\ state.status = StatusCooling
    /\ (state.cooldown_ends_at = Nil \/ Deref(state.cooldown_ends_at) = 0)

CheckTargetIDs(s, p) ==
    {t \in DOMAIN p : p[t] /\ Eligible(GetTargetState(s, t))}

NewProbe(t) == [target |-> t, pc |-> "start"]

\* One goroutine per target to check.
Spawn(pr, T) == pr (+) SetToBag({NewProbe(t) : t \in T})

\* The number of goroutines probing t.
ProbesOf(pr, t) ==
    BagCardinality([p \in {x \in BagToSet(pr) : x.target = t} |-> pr[p]])

\* The model holds at most MaxProbes goroutines per target at a time.
ProbesFit(pr) == \A p \in BagToSet(pr) : ProbesOf(pr, p.target) <= MaxProbes

TriggerCheckUntimedCoolingTargets ==
    /\ probes' = Spawn(probes, CheckTargetIDs(states, pipeline))
    /\ ProbesFit(probes')
    /\ UNCHANGED <<states, pipeline, lastRequest, running, timers>>
    /\ UNCHANGED aux

ProbeStartChecking(p) ==
    /\ BagIn(p, probes)
    /\ p.pc = "start"
    /\ states' = StartChecking(states, p.target)
    /\ probes' = BagReplace(probes, p, [p EXCEPT !.pc = "probe"])
    /\ UNCHANGED <<pipeline, lastRequest, running, timers>>
    /\ UNCHANGED aux

\* What the goroutine does to the store once CheckTarget has returned.
ProbeOutcome(s, t, found, healthy) ==
    IF ~found THEN s
    ELSE IF healthy THEN EndCooldown(CheckTarget(s, t, TRUE), t)
    ELSE StartCooldownTimed(CheckTarget(s, t, FALSE), t)

\* The probe ends; on an error of CheckTarget the goroutine returns at once.
ProbeCheckTarget(p, healthy) ==
    /\ BagIn(p, probes)
    /\ p.pc = "probe"
    /\ (HasRoute(p.target) /\ ~healthy) => CanFail(states, p.target)
    /\ states' = ProbeOutcome(states, p.target, HasRoute(p.target), healthy)
    /\ probes' = IF HasRoute(p.target) /\ ~healthy
                 THEN BagReplace(probes, p, [p EXCEPT !.pc = "schedule"])
                 ELSE BagRemove(probes, p)
    /\ UNCHANGED <<pipeline, lastRequest, running, timers>>
    /\ UNCHANGED aux

ProbeSchedule(p) ==
    /\ BagIn(p, probes)
    /\ p.pc = "schedule"
    /\ timers' = ScheduleTargetCheck(timers, states, p.target)
    /\ Fits(timers')
    /\ probes' = BagRemove(probes, p)
    /\ UNCHANGED <<states, pipeline, lastRequest, running>>
    /\ UNCHANGED aux

----------------

Next ==
    \/ \E t \in Targets : CallRecordSuccess(t)
    \/ \E t \in Targets : CallRecordFailure(t)
    \/ \E t \in Targets : CallStartCooldownTimed(t)
    \/ \E t \in Targets : CallStartCooldownUntimed(t)
    \/ \E t \in Targets : CallStartChecking(t)
    \/ \E t \in Targets, d \in Durations : CallSetCooldownNextCheckIn(t, d)
    \/ \E t \in Targets : CallEndCooldown(t)
    \/ \E t \in Targets : CallResetTarget(t)
    \/ \E t \in Targets : CallForceCooldown(t)
    \/ \E t \in Targets : CallInitializeTarget(t)
    \/ \E t \in Targets : CallRemoveTarget(t)
    \/ \E p \in Pipelines : UpdatePipeline(p)
    \/ Mark
    \/ Tick
    \/ \E t \in Targets, healthy \in BOOLEAN : CallCheckTarget(t, healthy)
    \/ \E t \in Targets : CallScheduleTargetCheck(t)
    \/ Start
    \/ Stop
    \/ \E r \in BagToSet(timers) : TimerFire(r)
    \/ \E r \in BagToSet(timers) : DueEnter(r)
    \/ \E r \in BagToSet(timers), healthy \in BOOLEAN : DueCheckTarget(r, healthy)
    \/ \E r \in BagToSet(timers) : DueReschedule(r)
    \/ TriggerCheckUntimedCoolingTargets
    \/ \E p \in BagToSet(probes) : ProbeStartChecking(p)
    \/ \E p \in BagToSet(probes), healthy \in BOOLEAN : ProbeCheckTarget(p, healthy)
    \/ \E p \in BagToSet(probes) : ProbeSchedule(p)

Spec == Init /\ [][Next]_vars

\* The sweep over a route of two targets: the pipeline and the states of both
\* change under it, time goes by, and the probes it starts run to their end.
SweepTargets == {"t1", "t2"}

SweepPipelines == [SweepTargets -> BOOLEAN] \cup [{"t1"} -> BOOLEAN] \cup {<<>>}

SweepInit ==
    /\ states = <<>>
    /\ pipeline \in SweepPipelines
    /\ lastRequest = Nil
    /\ running = FALSE
    /\ timers = EmptyBag
    /\ probes = EmptyBag
    /\ AuxInit

SweepNext ==
    \/ \E t \in SweepTargets : CallStartCooldownTimed(t)
    \/ \E t \in SweepTargets : CallStartCooldownUntimed(t)
    \/ \E t \in SweepTargets : CallStartChecking(t)
    \/ \E t \in SweepTargets : CallEndCooldown(t)
    \/ \E p \in SweepPipelines : UpdatePipeline(p)
    \/ Tick
    \/ TriggerCheckUntimedCoolingTargets
    \/ \E p \in BagToSet(probes) : ProbeStartChecking(p)
    \/ \E p \in BagToSet(probes), healthy \in BOOLEAN : ProbeCheckTarget(p, healthy)
    \/ \E p \in BagToSet(probes) : ProbeSchedule(p)

SweepSpec == SweepInit /\ [][SweepNext]_vars

----------------------------------------------------------------------------
(* The state manager call by call: m.mu taken, the state read from the     *)
(* store, changed in the caller's copy, written back, m.mu released        *)

CallIds == 1 .. MaxCalls

LockedOps == {"RecordFailure", "RecordSuccess"}

\* The counters of a TargetState, zero for a target the store does not hold.
GetCounters(rq, t) ==
    IF t \in DOMAIN rq THEN rq[t] ELSE [total_requests |-> 0, successful_requests |-> 0]

\* The store holding nothing but the state a call has read.
Snapshot(t, state) == SetTargetState(<<>>, t, state)

\* A RecordSuccess that stores the status before the rest is set.
ChangedStatusFirst(op, t, state) ==
    IF op = "RecordSuccess"
    THEN [state EXCEPT !.status = StatusHealthy]
    ELSE GetTargetState(RecordFailure(Snapshot(t, state), t), t)

\* The TargetState a call writes back, from the one it read.
Changed(op, t, state) ==
    IF op = "RecordSuccess"
    THEN GetTargetState(RecordSuccess(Snapshot(t, state), t), t)
    ELSE GetTargetState(RecordFailure(Snapshot(t, state), t), t)

\* state.TotalRequests++, and state.SuccessfulRequests++ in RecordSuccess.
ChangedCounters(op, counters) ==
    [total_requests |-> counters.total_requests + 1,
     successful_requests |-> counters.successful_requests +
                             (IF op = "RecordSuccess" THEN 1 ELSE 0)]

\* A mutex that lets every caller in.
MuFreeAlways(m) == TRUE

\* m.mu.Lock() goes through when no call holds the mutex.
MuFree(m) == m = Nil

\* A caller enters RecordSuccess or RecordFailure; ids are given in order.
BeginCall(c, op, t) ==
    /\ c = Cardinality(DOMAIN calls) + 1
    /\ calls' = MapSet(calls, c, [op |-> op, target |-> t, pc |-> "lock",
                                  state |-> Nil, counters |-> Nil])
    /\ UNCHANGED <<checkerVars, serviceVars, mu, requests, layers, dispatch, args, result>>

AcquireMu(c) ==
    /\ c \in DOMAIN calls
    /\ calls[c].pc = "lock"
    /\ MuFree(mu)
    /\ mu' = Ptr(c)
    /\ calls' = [calls EXCEPT ![c].pc = "read"]
    /\ UNCHANGED <<checkerVars, serviceVars, requests, layers, dispatch, args, result>>

\* state, _ := m.store.GetTargetState(ctx, targetID)
ReadState(c) ==
    /\ c \in DOMAIN calls
    /\ calls[c].pc = "read"
    /\ calls' = [calls EXCEPT ![c].pc = "write",
                              ![c].state = Ptr(GetTargetState(states, calls[c].target)),
                              ![c].counters = Ptr(GetCounters(requests, calls[c].target))]
    /\ UNCHANGED <<checkerVars, serviceVars, mu, requests, layers, dispatch, args, result>>

\* The fields are set in the copy; m.store.SetTargetState(ctx, state) stores it.
WriteState(c) ==
    /\ c \in DOMAIN calls
    /\ calls[c].pc = "write"
    /\ states' = SetTargetState(states, calls[c].target,
                                Changed(calls[c].op, calls[c].target, Deref(calls[c].state)))
    /\ requests' = MapSet(requests, calls[c].target,
                          ChangedCounters(calls[c].op, Deref(calls[c].counters)))
    /\ calls' = [calls EXCEPT ![c].pc = "unlock"]
    /\ UNCHANGED <<pipeline, lastRequest, running, timers, probes,
                   serviceVars, mu, layers, dispatch, args, result>>

\* defer m.mu.Unlock(): the call is complete.
ReleaseMu(c) ==
    /\ c \in DOMAIN calls
    /\ calls[c].pc = "unlock"
    /\ mu' = IF mu = Ptr(c) THEN Nil ELSE mu
    /\ calls' = [calls EXCEPT ![c].pc = "done"]
    /\ UNCHANGED <<checkerVars, serviceVars, requests, layers, dispatch, args, result>>

\* The store before the calls: empty, or the target cooling after a failure.
ManagerStores ==
    {<<>>} \cup
    {SetTargetState(<<>>, t, [NewTargetState(StatusCooling) EXCEPT
                                 !.consecutive_failures = 1,
                                 !.cooldown_ends_at = Ptr(CheckInterval)]) : t \in Targets}

ManagerInit ==
    /\ states \in ManagerStores
    /\ pipeline = <<>>
    /\ lastRequest = Nil
    /\ running = FALSE
    /\ timers = EmptyBag
    /\ probes = EmptyBag
    /\ AuxInit

ManagerNext ==
    \/ \E c \in CallIds, op \in LockedOps, t \in Targets : BeginCall(c, op, t)
    \/ \E c \in CallIds : AcquireMu(c)
    \/ \E c \in CallIds : ReadState(c)
    \/ \E c \in CallIds : WriteState(c)
    \/ \E c \in CallIds : ReleaseMu(c)

ManagerSpec == ManagerInit /\ [][ManagerNext]_vars

\* InitializeTarget and RemoveTarget: one call of the store, m.mu not taken.
StoreOps == {"InitializeTarget", "RemoveTarget"}

CallStore(c, op, t) ==
    /\ c = Cardinality(DOMAIN calls) + 1
    /\ calls' = MapSet(calls, c, [op |-> op, target |-> t, pc |-> "done",
                                  state |-> Nil, counters |-> Nil])
    /\ states' = IF op = "RemoveTarget" THEN RemoveTarget(states, t)
                  ELSE InitializeTarget(states, t)
    /\ requests' = IF op = "RemoveTarget" THEN MapDelete(requests, t)
                    ELSE MapSet(requests, t, GetCounters(<<>>, t))
    /\ UNCHANGED <<pipeline, lastRequest, running, timers, probes,
                   serviceVars, mu, layers, dispatch, args, result>>

\* The calls of the manager with those that go to the store at once.
ManagerStoreNext ==
    \/ ManagerNext
    \/ \E c \in CallIds, op \in StoreOps, t \in Targets : CallStore(c, op, t)

ManagerStoreSpec == ManagerInit /\ [][ManagerStoreNext]_vars

----------------------------------------------------------------------------
(* The layers of a pipeline, target selection and the route overview *)

RouteTargets == {"t1", "t2", "t3"}

Levels == 1 .. MaxLevel

\* The sequences of one or two targets, none twice: Layer.Targets as declared.
TargetLists ==
    {<<t>> : t \in RouteTargets} \cup
    {<<t, u>> : <<t, u>> \in {tu \in RouteTargets \X RouteTargets : tu[1] # tu[2]}}

LayerSet == [level : Levels, targets : TargetLists]

Range(f) == {f[i] : i \in DOMAIN f}

\* validatePipeline: at least one layer, no level twice, no layer without a
\* target; nothing is said on the order of the layers. Target ids are not
\* shared between layers.
ValidPipeline(ls) ==
    /\ Len(ls) > 0
    /\ \A i, j \in DOMAIN ls :
          i # j => /\ ls[i].level # ls[j].level
                   /\ Range(ls[i].targets) \cap Range(ls[j].targets) = {}

ValidPipelines ==
    {ls \in UNION {[1 .. n -> LayerSet] : n \in 1 .. Cardinality(RouteTargets)} :
        ValidPipeline(ls)}

\* Target.Enabled of the targets that some layer holds.
EnabledMaps(ls) == [UNION {Range(ls[i].targets) : i \in DOMAIN ls} -> BOOLEAN]

\* The stores in which each target is healthy, cooling or checking.
StoresOver(T) ==
    {[t \in T |-> NewTargetState(st[t])] :
        st \in [T -> {StatusHealthy, StatusCooling, StatusChecking}]}

\* What m.GetTargetState returns: the state, or an error of the store.
ReadTargetState(s, t, failing) ==
    IF t \in failing
    THEN [state |-> Nil, err |-> TRUE]
    ELSE [state |-> Ptr(GetTargetState(s, t)), err |-> FALSE]

\* IsTargetAvailable: healthy, and available too when the read fails.
IsTargetAvailable(s, t, failing) ==
    LET r == ReadTargetState(s, t, failing) IN
    IF r.err THEN TRUE ELSE Deref(r.state).status = StatusHealthy

\* GetAvailableTargetsInLayer: the enabled and available targets, as declared.
GetAvailableTargetsInLayer(s, p, layer, failing) ==
    SelectSeq(layer.targets, LAMBDA t : p[t] /\ IsTargetAvailable(s, t, failing))

\* The healthy targets GetRouteState counts in a layer, enabled or not; a
\* state the store does not hold counts as healthy.
HealthyInLayer(s, layer) ==
    Cardinality({t \in Range(layer.targets) : GetTargetState(s, t).status = StatusHealthy})

\* GetRouteState, the loop over pipeline.Layers: the LayerStates so far, the
\* active layer and whether one was found.
RECURSIVE RouteStateUpTo(_, _, _)
RouteStateUpTo(s, ls, n) ==
    IF n = 0
    THEN [active_layer |-> 1, layer_states |-> <<>>, activeLayerFound |-> FALSE]
    ELSE LET before == RouteStateUpTo(s, ls, n - 1)
             healthyInLayer == HealthyInLayer(s, ls[n])
             active == healthyInLayer > 0 /\ ~before.activeLayerFound
             status == IF active THEN "active"
                       ELSE IF healthyInLayer = 0 THEN "exhausted" ELSE "standby"
         IN  [active_layer |-> IF active THEN ls[n].level ELSE before.active_layer,
              layer_states |-> Append(before.layer_states,
                                      [level |-> ls[n].level, status |-> status]),
              activeLayerFound |-> before.activeLayerFound \/ active]

\* GetRouteState: the RouteState, its status from the targets of all layers.
GetRouteState(s, ls) ==
    LET rs == RouteStateUpTo(s, ls, Len(ls))
        all == UNION {Range(ls[i].targets) : i \in DOMAIN ls}
        healthy == {t \in all : GetTargetState(s, t).status = StatusHealthy}
    IN  [active_layer |-> rs.active_layer,
         layer_states |-> rs.layer_states,
         status |-> IF healthy = all THEN "healthy"
                    ELSE IF healthy = {} THEN "unhealthy" ELSE "degraded"]

----------------------------------------------------------------------------
(* The classification of an upstream error *)

ErrorClassRetryable == "retryable"
ErrorClassNonRetryable == "non_retryable"

\* The HTTP statuses told apart by classifyHTTPStatus, one of each case.
Codes == {0, 302, 400, 401, 404, 413, 418, 422, 429, 500}

\* What an error in a chain of wrapped errors is: context.Canceled,
\* context.DeadlineExceeded, a *coreauth.Error, a StatusError or none of them.
Links ==
    [kind : {"canceled", "deadline", "plain"}, retryable : {FALSE}, code : {0}] \cup
    [kind : {"auth"}, retryable : BOOLEAN, code : Codes] \cup
    [kind : {"status"}, retryable : {FALSE}, code : Codes]

\* The phrases the text of an error is made of.
Phrases == {"Overloaded", "connection reset", "invalid request"}

\* An error: the chain errors.Is and errors.As walk, the outermost first, and
\* the text err.Error() gives.
Errors ==
    [chain : UNION {[1 .. n -> Links] : n \in 1 .. MaxChain}, text : SUBSET Phrases]

\* strings.ToLower of the texts and names of the model.
ToLower(str) ==
    CASE str = "Overloaded" -> "overloaded"
      [] str = "GPT" -> "gpt"
      [] OTHER -> str

overloadKeywords == {"overloaded", "capacity", "quota"}

networkKeywords == {"connection refused", "connection reset", "eof"}

\* strings.Contains(strings.ToLower(msg), kw) for some keyword.
ContainsAny(text, keywords) == \E phrase \in text : ToLower(phrase) \in keywords

isOverloadMessage(text) == ContainsAny(text, overloadKeywords)

\* errors.Is(err, target): some error of the chain is the target.
ErrorsIs(err, kind) == \E i \in DOMAIN err.chain : err.chain[i].kind = kind

\* errors.As(err, &target): the first error of the chain of that type.
ErrorsAs(err, kind) ==
    LET found == {i \in DOMAIN err.chain : err.chain[i].kind = kind} IN
    IF found = {} THEN Nil
    ELSE Ptr(err.chain[CHOOSE i \in found : \A j \in found : i <= j])

classifyByMessage(err) ==
    IF ContainsAny(err.text, networkKeywords) THEN ErrorClassRetryable
    ELSE IF isOverloadMessage(err.text) THEN ErrorClassRetryable
    ELSE ErrorClassRetryable

\* A table that never looks at the message of a 400.
classifyHTTPStatusByCodeOnly(code, err) ==
    IF code = 0 THEN classifyByMessage(err)
    ELSE IF code \in {401, 402, 403, 404, 429} \/ code >= 500 \/ code < 400
         THEN ErrorClassRetryable
    ELSE ErrorClassNonRetryable

classifyHTTPStatus(code, err) ==
    CASE code = 400 ->
            IF isOverloadMessage(err.text) THEN ErrorClassRetryable
            ELSE ErrorClassNonRetryable
      [] code \in {413, 422} -> ErrorClassNonRetryable
      [] code \in {401, 402, 403, 404, 429} -> ErrorClassRetryable
      [] code >= 500 -> ErrorClassRetryable
      [] code = 0 -> classifyByMessage(err)
      [] OTHER ->
            IF code >= 400 /\ code < 500 THEN ErrorClassNonRetryable
            ELSE ErrorClassRetryable

\* A classifier that trusts the provider's flag before it looks for a
\* cancellation.
ClassifyErrorFlagFirst(e) ==
    IF e = Nil THEN ErrorClassRetryable
    ELSE LET err == Deref(e)
             authErr == ErrorsAs(err, "auth")
         IN  IF authErr # Nil /\ Deref(authErr).retryable THEN ErrorClassRetryable
             ELSE IF ErrorsIs(err, "canceled") THEN ErrorClassNonRetryable
             ELSE IF authErr # Nil THEN classifyHTTPStatus(Deref(authErr).code, err)
             ELSE IF ErrorsAs(err, "status") # Nil
                  THEN classifyHTTPStatus(Deref(ErrorsAs(err, "status")).code, err)
             ELSE classifyByMessage(err)

\* A classifier that takes the flag of the auth error as the answer.
ClassifyErrorFlagOnly(e) ==
    IF e = Nil THEN ErrorClassRetryable
    ELSE LET err == Deref(e)
             authErr == ErrorsAs(err, "auth")
             statusErr == ErrorsAs(err, "status")
         IN  IF ErrorsIs(err, "canceled") THEN ErrorClassNonRetryable
             ELSE IF authErr # Nil
                  THEN IF Deref(authErr).retryable THEN ErrorClassRetryable
                       ELSE ErrorClassNonRetryable
             ELSE IF statusErr # Nil
                  THEN classifyHTTPStatus(Deref(statusErr).code, err)
             ELSE classifyByMessage(err)

\* ClassifyError of an error, Nil for the nil error.
ClassifyError(e) ==
    IF e = Nil THEN ErrorClassRetryable
    ELSE LET err == Deref(e)
             authErr == ErrorsAs(err, "auth")
             statusErr == ErrorsAs(err, "status")
         IN  IF ErrorsIs(err, "canceled") THEN ErrorClassNonRetryable
             ELSE IF authErr # Nil
                  THEN IF Deref(authErr).retryable THEN ErrorClassRetryable
                       ELSE classifyHTTPStatus(Deref(authErr).code, err)
             ELSE IF statusErr # Nil
                  THEN classifyHTTPStatus(Deref(statusErr).code, err)
             ELSE classifyByMessage(err)

\* The errors ClassifyError is called with.
ClassifyInit ==
    /\ states = <<>>
    /\ pipeline = <<>>
    /\ lastRequest = Nil
    /\ running = FALSE
    /\ timers = EmptyBag
    /\ probes = EmptyBag
    /\ ServiceInit
    /\ mu = Nil
    /\ calls = <<>>
    /\ requests = <<>>
    /\ layers = <<>>
    /\ dispatch = Nil
    /\ args \in {Ptr([err |-> e]) : e \in {Nil} \cup {Ptr(err) : err \in Errors}}
    /\ result = Nil

CallClassifyError ==
    /\ result = Nil
    /\ result' = Ptr(ClassifyError(Deref(args).err))
    /\ UNCHANGED <<checkerVars, serviceVars, mu, calls, requests, layers, dispatch, args>>

ClassifyNext == CallClassifyError

ClassifySpec == ClassifyInit /\ [][ClassifyNext]_vars

----------------------------------------------------------------------------
(* The routing engine: one dispatch over the layers of a route *)

\* Pipelines told apart by their shape only: the targets are named in the
\* order in which the layers, as stored, declare them.
RECURSIVE Declared(_, _)
Declared(ls, n) ==
    IF n = 0 THEN <<>> ELSE Declared(ls, n - 1) \o ls[n].targets

InOrder(ids) ==
    \A i \in DOMAIN ids :
        ids[i] = CASE i = 1 -> "t1" [] i = 2 -> "t2" [] OTHER -> "t3"

PipelineShapes == {ls \in ValidPipelines : InOrder(Declared(ls, Len(ls)))}

\* What the upstream answers to an attempt: the nil error, or an error.
UpstreamErrors ==
    {err \in Errors :
        /\ Len(err.chain) = 1
        /\ err.text = {}
        /\ err.chain[1].kind \in {"canceled", "plain", "status"}
        /\ err.chain[1].code \in {0, 422, 429}}

Answers == {Nil} \cup {Ptr(err) : err \in UpstreamErrors}

\* The layer of a level, and the next level in ascending order: 0 when the
\* walk is over.
LayerAt(ls, level) == ls[CHOOSE i \in DOMAIN ls : ls[i].level = level]

NextLevel(ls, level) ==
    LET above == {ls[i].level : i \in DOMAIN ls} \cap (level + 1 .. MaxLevel + 1) IN
    IF above = {} THEN 0 ELSE CHOOSE l \in above : \A k \in above : l <= k

\* An engine that cools no target.
OnErrorCoolsNever(class, s, t) == s

\* An engine that cools the target whatever the class of the error.
OnErrorCoolsAlways(class, s, t) == StartCooldownTimed(s, t)

\* The store after an error of that class on target t: a retryable error
\* cools the target, any other leaves the store as it is.
OnError(class, s, t) ==
    IF class = ErrorClassRetryable THEN StartCooldownTimed(s, t) ELSE s

NewDispatch(level) ==
    [pc |-> "collect", level |-> level, target |-> Nil, err |-> Nil,
     attempts |-> <<>>, empty |-> {}, cooled |-> {}, outcome |-> "none"]

\* Dispatch, steps 2 to 4: the activity is marked, the sweep of the eligible
\* cooling targets is started, the walk begins at the lowest level.
BeginDispatch ==
    /\ dispatch = Nil
    /\ lastRequest' = Ptr(0)
    /\ probes' = Spawn(probes, CheckTargetIDs(states, pipeline))
    /\ dispatch' = Ptr(NewDispatch(NextLevel(layers, 0)))
    /\ UNCHANGED <<states, pipeline, running, timers>>
    /\ UNCHANGED <<serviceVars, mu, calls, requests, layers, args, result>>

\* The available targets of the current layer are collected: one of them is
\* picked, whatever the strategy; with none the walk goes to the next layer,
\* and ends after the last.
Collect(pick) ==
    /\ dispatch # Nil
    /\ Deref(dispatch).pc = "collect"
    /\ LET d == Deref(dispatch)
           available == GetAvailableTargetsInLayer(states, pipeline,
                                                   LayerAt(layers, d.level), {})
           next == NextLevel(layers, d.level)
       IN  IF available # <<>>
           THEN /\ pick \in Range(available)
                /\ dispatch' = Ptr([d EXCEPT !.pc = "attempt", !.target = Ptr(pick)])
           ELSE /\ pick = "t1"
                /\ dispatch' =
                     Ptr([d EXCEPT !.empty = @ \cup {d.level},
                                   !.level = IF next = 0 THEN @ ELSE next,
                                   !.pc = IF next = 0 THEN "done" ELSE "collect",
                                   !.outcome = IF next = 0 THEN "exhausted" ELSE @])
    /\ UNCHANGED <<checkerVars, serviceVars, mu, calls, requests, layers, args, result>>

\* The upstream answers the attempt: the response is streamed to the client,
\* or the error is kept to be classified.
Attempt(answer) ==
    /\ dispatch # Nil
    /\ Deref(dispatch).pc = "attempt"
    /\ LET d == Deref(dispatch) IN
       dispatch' =
           IF answer = Nil
           THEN Ptr([d EXCEPT !.pc = "done", !.outcome = "success",
                              !.attempts = Append(@, [target |-> Deref(d.target),
                                                      level |-> d.level,
                                                      class |-> "ok"])])
           ELSE Ptr([d EXCEPT !.pc = "failed", !.err = answer])
    /\ UNCHANGED <<checkerVars, serviceVars, mu, calls, requests, layers, args, result>>

\* The error is classified. NonRetryable: it goes to the client and the
\* dispatch stops. Retryable: the target is cooled, its check is scheduled
\* and the selection goes on in the same layer.
Failover ==
    /\ dispatch # Nil
    /\ Deref(dispatch).pc = "failed"
    /\ LET d == Deref(dispatch)
           t == Deref(d.target)
           class == ClassifyError(d.err)
           attempted == Append(d.attempts,
                               [target |-> t, level |-> d.level, class |-> class])
       IN  /\ states' = OnError(class, states, t)
           /\ timers' = IF states' = states THEN timers
                         ELSE ScheduleTargetCheck(timers, states', t)
           /\ dispatch' =
                 IF class = ErrorClassNonRetryable
                 THEN Ptr([d EXCEPT !.pc = "done", !.outcome = "non_retryable",
                                    !.attempts = attempted])
                 ELSE Ptr([d EXCEPT !.pc = "collect", !.target = Nil, !.err = Nil,
                                    !.attempts = attempted,
                                    !.cooled = IF states' = states THEN @
                                               ELSE @ \cup {t}])
    /\ UNCHANGED <<pipeline, lastRequest, running, probes>>
    /\ UNCHANGED <<serviceVars, mu, calls, requests, layers, args, result>>

\* A route of up to three targets in up to three layers, each target enabled
\* or not, healthy or in untimed cooling; the checker runs.
EngineInit ==
    /\ layers \in PipelineShapes
    /\ pipeline \in EnabledMaps(layers)
    /\ states \in {[t \in DOMAIN pipeline |-> NewTargetState(st[t])] :
                      st \in [DOMAIN pipeline -> {StatusHealthy, StatusCooling}]}
    /\ lastRequest = Nil
    /\ running = TRUE
    /\ timers = EmptyBag
    /\ probes = EmptyBag
    /\ ServiceInit
    /\ mu = Nil
    /\ calls = <<>>
    /\ requests = <<>>
    /\ dispatch = Nil
    /\ args = Nil
    /\ result = Nil

EngineNext ==
    \/ BeginDispatch
    \/ \E pick \in RouteTargets : Collect(pick)
    \/ \E answer \in Answers : Attempt(answer)
    \/ Failover
    \/ \E p \in BagToSet(probes) : ProbeStartChecking(p)
    \/ \E p \in BagToSet(probes), healthy \in BOOLEAN : ProbeCheckTarget(p, healthy)
    \/ \E p \in BagToSet(probes) : ProbeSchedule(p)

EngineSpec == EngineInit /\ [][EngineNext]_vars

\* The engine goes on with a dispatch it has begun.
EngineLiveSpec ==
    /\ EngineSpec
    /\ WF_vars(\E pick \in RouteTargets : Collect(pick))
    /\ WF_vars(\E answer \in Answers : Attempt(answer))
    /\ WF_vars(Failover)

----------------------------------------------------------------------------
(* Calls of GetAvailableTargetsInLayer and GetRouteState *)

\* The reads of the store that fail during a call: none, or those of some
\* targets of the layer.
Failing(layer) == SUBSET Range(layer.targets)

CallGetAvailableTargetsInLayer(i, failing) ==
    /\ result = Nil
    /\ i \in DOMAIN layers
    /\ failing \in Failing(layers[i])
    /\ args' = Ptr([op |-> "GetAvailableTargetsInLayer", layer |-> i,
                     failing |-> failing])
    /\ result' = Ptr(GetAvailableTargetsInLayer(states, pipeline, layers[i], failing))
    /\ UNCHANGED <<checkerVars, serviceVars, mu, calls, requests, layers, dispatch>>

CallGetRouteState ==
    /\ result = Nil
    /\ args' = Ptr([op |-> "GetRouteState", layer |-> 0, failing |-> {}])
    /\ result' = Ptr(GetRouteState(states, layers))
    /\ UNCHANGED <<checkerVars, serviceVars, mu, calls, requests, layers, dispatch>>

\* A route whose pipeline was saved by UpdatePipeline, each target enabled or
\* not and healthy, cooling or checking in the store.
RouteInit ==
    /\ layers \in PipelineShapes
    /\ pipeline \in EnabledMaps(layers)
    /\ states \in StoresOver(DOMAIN pipeline)
    /\ lastRequest = Nil
    /\ running = FALSE
    /\ timers = EmptyBag
    /\ probes = EmptyBag
    /\ ServiceInit
    /\ mu = Nil
    /\ calls = <<>>
    /\ requests = <<>>
    /\ dispatch = Nil
    /\ args = Nil
    /\ result = Nil

RouteNext ==
    \/ \E i \in 1 .. Cardinality(RouteTargets), failing \in SUBSET RouteTargets :
          CallGetAvailableTargetsInLayer(i, failing)
    \/ CallGetRouteState

RouteSpec == RouteInit /\ [][RouteNext]_vars

----------------------------------------------------------------------------
(* The configuration service: routes *)

RouteIds == {"r1", "r2"}

\* Route names, two of them equal but for the case.
Names == {"gpt", "GPT", "pro"}

\* The aliases a caller gives: none, or a name in upper case, one with a
\* space and an empty one.
AliasLists == {<<>>, <<"GPT", "pro ", "">>}

\* The routes a caller hands to CreateRoute or UpdateRoute; "" for no id and
\* for no name.
RouteInputs == [id : RouteIds \cup {""}, name : Names \cup {""}, aliases : AliasLists]

\* The routes of an import file: nothing of them has been checked.
ImportedRoutes == [id : RouteIds, name : {"gpt", "GPT"}, aliases : {<<>>}]

TrimSpace(str) == IF str = "pro " THEN "pro" ELSE str

GeneratedRouteIds == {"route-1", "route-2"}

\* "route-" + generateShortID(): an id that no route and no call has.
GenerateRouteId(cfg, cs) ==
    CHOOSE id \in GeneratedRouteIds :
        id \notin DOMAIN cfg.routes \cup {cs[c].route.id : c \in DOMAIN cs}

CanGenerate(cfg, cs) ==
    GeneratedRouteIds \ (DOMAIN cfg.routes \cup {cs[c].route.id : c \in DOMAIN cs}) # {}

\* cleanAliases, the loop: the aliases kept and the lower-cased names seen.
RECURSIVE CleanUpTo(_, _, _)
CleanUpTo(name, aliases, n) ==
    IF n = 0 THEN [seen |-> {ToLower(name)}, result |-> <<>>]
    ELSE LET before == CleanUpTo(name, aliases, n - 1)
             a == TrimSpace(aliases[n])
         IN  IF a = "" \/ ToLower(a) \in before.seen THEN before
             ELSE [seen |-> before.seen \cup {ToLower(a)},
                   result |-> Append(before.result, a)]

cleanAliases(name, aliases) == CleanUpTo(name, aliases, Len(aliases)).result

\* The lower-cased name and aliases of a route.
LowerNames(route) ==
    {ToLower(route.name)} \cup {ToLower(route.aliases[i]) : i \in DOMAIN route.aliases}

\* checkNameConflicts: whether an error is returned. Routes with the id of
\* the route are skipped.
checkNameConflicts(route, allRoutes) ==
    \E r \in allRoutes :
        /\ r.id # route.id
        /\ LowerNames(r) \cap LowerNames(route) # {}

\* DefaultHealthCheckConfig().DefaultCooldownSeconds
DefaultCooldownSeconds == 60

\* The HealthCheckConfigs: with no default cooldown of its own, or with one.
NoDefault == [default_cooldown_seconds |-> 0]

HealthCheckConfigs == {NoDefault, [default_cooldown_seconds |-> 30]}

\* ConfigStore: the routes by id, the pipelines by route id.
NewConfig(settings, health) ==
    [settings |-> settings, health |-> health, routes |-> <<>>, pipelines |-> <<>>]

\* store.ListRoutes
ListRoutes(cfg) == {cfg.routes[id] : id \in DOMAIN cfg.routes}

\* store.CreateRoute, store.UpdateRoute, store.DeleteRoute: the store after
\* the call and whether it returned an error.
StoreCreateRoute(cfg, route) ==
    IF route.id \in DOMAIN cfg.routes THEN [config |-> cfg, err |-> TRUE]
    ELSE [config |-> [cfg EXCEPT !.routes = MapSet(@, route.id, route)], err |-> FALSE]

StoreUpdateRoute(cfg, route) ==
    IF route.id \notin DOMAIN cfg.routes THEN [config |-> cfg, err |-> TRUE]
    ELSE [config |-> [cfg EXCEPT !.routes = MapSet(@, route.id, route)], err |-> FALSE]

StoreDeleteRoute(cfg, id) ==
    IF id \notin DOMAIN cfg.routes THEN [config |-> cfg, err |-> TRUE]
    ELSE [config |-> [cfg EXCEPT !.routes = MapDelete(@, id),
                                 !.pipelines = MapDelete(@, id)],
          err |-> FALSE]

\* store.SavePipeline
SavePipeline(cfg, id, p) == [cfg EXCEPT !.pipelines = MapSet(@, id, p)]

\* s.notify(ConfigChangeEvent{Type, RouteID}): one more event.
Notify(ev, type, id) == BagAdd(ev, [type |-> type, route |-> id])

\* A mutation ends: with an error nothing was written and no event sent.
Returned(call, err) == [call EXCEPT !.pc = "done", !.err = err]

\* A call of CreateRoute or UpdateRoute; during: the calls it began during.
NewRouteCall(op, route) ==
    [op |-> op, route |-> route, pc |-> "check", err |-> FALSE, during |-> {}]

\* The calls that have not returned.
InFlight(cs) == {c \in DOMAIN cs : cs[c].pc # "done"}

\* CreateRoute up to the conflict check: the id is generated, the name is
\* required, the aliases are cleaned.
CreateRouteBegun(cfg, cs, route) ==
    LET named == [route EXCEPT !.id = IF @ = "" THEN GenerateRouteId(cfg, cs) ELSE @] IN
    IF route.name = ""
    THEN Returned(NewRouteCall("CreateRoute", named), TRUE)
    ELSE NewRouteCall("CreateRoute",
                      [named EXCEPT !.aliases = cleanAliases(route.name, @)])

\* UpdateRoute up to the conflict check: the route must exist, the aliases
\* are cleaned.
UpdateRouteBegun(cfg, route) ==
    IF route.id \notin DOMAIN cfg.routes
    THEN Returned(NewRouteCall("UpdateRoute", route), TRUE)
    ELSE NewRouteCall("UpdateRoute",
                      [route EXCEPT !.aliases = cleanAliases(route.name, @)])

\* routes, err := s.store.ListRoutes(ctx); checkNameConflicts(route, routes)
RouteChecked(cfg, call) ==
    IF call.pc # "check" THEN call
    ELSE IF checkNameConflicts(call.route, ListRoutes(cfg)) THEN Returned(call, TRUE)
    ELSE [call EXCEPT !.pc = "write"]

\* s.store.CreateRoute or s.store.UpdateRoute, then s.notify: the store, the
\* events and the call after them.
RouteWritten(cfg, ev, call) ==
    IF call.pc # "write" THEN [config |-> cfg, events |-> ev, call |-> call]
    ELSE LET stored == IF call.op = "CreateRoute"
                       THEN StoreCreateRoute(cfg, call.route)
                       ELSE StoreUpdateRoute(cfg, call.route)
         IN  [config |-> stored.config,
              events |-> IF stored.err THEN ev
                         ELSE Notify(ev, IF call.op = "CreateRoute" THEN "route_created"
                                         ELSE "route_updated", call.route.id),
              call |-> Returned(call, stored.err)]

\* CreateRoute and UpdateRoute of one caller at a time, from the first line
\* to the last.
CreateRoute(route) ==
    /\ BagCardinality(events) < MaxEvents
    /\ route.id = "" => CanGenerate(Deref(config), <<>>)
    /\ LET call == RouteChecked(Deref(config), CreateRouteBegun(Deref(config), <<>>, route))
           written == RouteWritten(Deref(config), events, call)
       IN  /\ config' = Ptr(written.config)
           /\ events' = written.events
    /\ UNCHANGED <<checkerVars, gin, logger, files,
                   mu, calls, requests, layers, dispatch, args, result>>

UpdateRoute(route) ==
    /\ BagCardinality(events) < MaxEvents
    /\ LET call == RouteChecked(Deref(config), UpdateRouteBegun(Deref(config), route))
           written == RouteWritten(Deref(config), events, call)
       IN  /\ config' = Ptr(written.config)
           /\ events' = written.events
    /\ UNCHANGED <<checkerVars, gin, logger, files,
                   mu, calls, requests, layers, dispatch, args, result>>

\* The same of callers that run together, store call by store call.
BeginCreateRoute(c, route) ==
    /\ c = Cardinality(DOMAIN calls) + 1
    /\ c <= MaxRouteCalls
    /\ route.id = "" => CanGenerate(Deref(config), calls)
    /\ calls' = MapSet(calls, c, [CreateRouteBegun(Deref(config), calls, route)
                                     EXCEPT !.during = InFlight(calls)])
    /\ UNCHANGED <<checkerVars, gin, config, events, logger, files,
                   mu, requests, layers, dispatch, args, result>>

BeginUpdateRoute(c, route) ==
    /\ c = Cardinality(DOMAIN calls) + 1
    /\ c <= MaxRouteCalls
    /\ calls' = MapSet(calls, c, [UpdateRouteBegun(Deref(config), route)
                                     EXCEPT !.during = InFlight(calls)])
    /\ UNCHANGED <<checkerVars, gin, config, events, logger, files,
                   mu, requests, layers, dispatch, args, result>>

CheckRoute(c) ==
    /\ c \in DOMAIN calls
    /\ calls[c].pc = "check"
    /\ calls' = [calls EXCEPT ![c] = RouteChecked(Deref(config), @)]
    /\ UNCHANGED <<checkerVars, gin, config, events, logger, files,
                   mu, requests, layers, dispatch, args, result>>

WriteRoute(c) ==
    /\ c \in DOMAIN calls
    /\ calls[c].pc = "write"
    /\ LET written == RouteWritten(Deref(config), events, calls[c]) IN
       /\ config' = Ptr(written.config)
       /\ events' = written.events
       /\ calls' = [calls EXCEPT ![c] = written.call]
    /\ UNCHANGED <<checkerVars, gin, logger, files,
                   mu, requests, layers, dispatch, args, result>>

DeleteRoute(id) ==
    /\ BagCardinality(events) < MaxEvents
    /\ LET stored == StoreDeleteRoute(Deref(config), id) IN
       /\ config' = Ptr(stored.config)
       /\ events' = IF stored.err THEN events ELSE Notify(events, "route_deleted", id)
    /\ UNCHANGED <<checkerVars, gin, logger, files,
                   mu, calls, requests, layers, dispatch, args, result>>

\* Import, the loop over the routes that exist: each is deleted.
RECURSIVE DeleteAll(_, _)
DeleteAll(cfg, ids) ==
    IF ids = {} THEN cfg
    ELSE LET id == CHOOSE x \in ids : TRUE
         IN  DeleteAll(StoreDeleteRoute(cfg, id).config, ids \ {id})

\* Import, the loop over data.Config.Routes: the route is created, or updated
\* when merging and it exists; its pipeline is saved; no error is looked at.
RECURSIVE ImportRoutes(_, _, _, _)
ImportRoutes(cfg, rwps, n, merge) ==
    IF n = 0 THEN cfg
    ELSE LET before == ImportRoutes(cfg, rwps, n - 1, merge)
             route == rwps[n].route
             written == IF merge /\ route.id \in DOMAIN before.routes
                        THEN StoreUpdateRoute(before, route).config
                        ELSE StoreCreateRoute(before, route).config
         IN  SavePipeline(written, route.id, rwps[n].pipeline)

\* An Import that merges whatever the caller asked for.
ImportedByMerge(cfg, data, merge) ==
    LET saved == [cfg EXCEPT !.settings = data.settings, !.health = data.health]
    IN  ImportRoutes(saved, data.routes, Len(data.routes), TRUE)

\* The store Import leaves.
Imported(cfg, data, merge) ==
    LET emptied == IF merge THEN cfg ELSE DeleteAll(cfg, DOMAIN cfg.routes)
        saved == [emptied EXCEPT !.settings = data.settings, !.health = data.health]
    IN  ImportRoutes(saved, data.routes, Len(data.routes), merge)

Import(data, merge) ==
    /\ BagCardinality(events) < MaxEvents
    /\ config' = Ptr(Imported(Deref(config), data, merge))
    /\ events' = Notify(events, "config_imported", "")
    /\ UNCHANGED <<checkerVars, gin, logger, files,
                   mu, calls, requests, layers, dispatch, args, result>>

\* The import files of the routes specification: up to two routes, each
\* with the pipeline of no layer.
RouteImports ==
    [settings : {"s0"}, health : {NoDefault},
     routes : {<<>>} \cup
              {<<[route |-> r, pipeline |-> <<>>]>> : r \in ImportedRoutes} \cup
              {<<[route |-> rs[1], pipeline |-> <<>>], [route |-> rs[2], pipeline |-> <<>>]>> :
                  rs \in ImportedRoutes \X ImportedRoutes}]

----------------------------------------------------------------------------
(* The configuration service: pipelines *)

\* The targets a caller puts into a pipeline: with an id of its own or none,
\* complete, or with no credential, or with no model.
TargetInputs ==
    [id : {"", "t1"}, credential_id : {"c"}, model : {"m"}, weight : {0}] \cup
    [id : {"t1"}, credential_id : {""}, model : {"m"}, weight : {0}] \cup
    [id : {"t1"}, credential_id : {"c"}, model : {""}, weight : {0}]

\* Layer.Strategy: the default, one of the enum, one outside it.
Strategies == {"", "round_robin", "bogus"}

ValidStrategies ==
    {"round_robin", "weighted_round", "least_conn", "random", "first_available", ""}

LayerInputs ==
    [level : {1, 2}, strategy : Strategies, cooldown_seconds : {0},
     targets : {<<>>} \cup {<<t>> : t \in TargetInputs}
                     \cup {<<tu[1], tu[2]>> : tu \in TargetInputs \X TargetInputs}]

\* The pipelines a caller hands to UpdatePipeline: no layer, one or two.
PipelineInputs ==
    {<<>>} \cup {<<l>> : l \in LayerInputs}
           \cup {<<lk[1], lk[2]>> : lk \in LayerInputs \X LayerInputs}

\* validatePipeline, the checks of layer i: the fields in error.
LayerErrors(p, i) ==
    {<<i, "level">> : x \in {j \in 1 .. i - 1 : p[j].level = p[i].level}} \cup
    {<<i, "targets">> : x \in {1} \cap {Len(p[i].targets) + 1}} \cup
    {<<i, "credential_id">> :
        j \in {k \in DOMAIN p[i].targets : p[i].targets[k].credential_id = ""}} \cup
    {<<i, "model">> : j \in {k \in DOMAIN p[i].targets : p[i].targets[k].model = ""}} \cup
    {<<i, "strategy">> : x \in {p[i].strategy} \ ValidStrategies}

\* A validation that asks nothing of the levels.
validatePipelineButLevels(p) ==
    IF Len(p) = 0 THEN {<<0, "layers">>}
    ELSE UNION {LayerErrors(p, i) \ {<<i, "level">>} : i \in DOMAIN p}

\* validatePipeline: the fields in error, none for a valid pipeline.
validatePipeline(p) ==
    IF Len(p) = 0 THEN {<<0, "layers">>}
    ELSE UNION {LayerErrors(p, i) : i \in DOMAIN p}

\* "target-" + generateShortID(): an id of its own for each target.
GeneratedTargetId(i, j) ==
    CASE i = 1 /\ j = 1 -> "target-1"
      [] i = 1 -> "target-2"
      [] j = 1 -> "target-3"
      [] OTHER -> "target-4"

\* UpdatePipeline, the defaults: the cooldown of a layer, the id and the
\* weight of a target.
Normalised(cfg, p) ==
    LET defaultCooldown ==
            IF cfg.health.default_cooldown_seconds > 0
            THEN cfg.health.default_cooldown_seconds ELSE DefaultCooldownSeconds
    IN  [i \in DOMAIN p |->
            [p[i] EXCEPT
                !.cooldown_seconds = IF @ <= 0 THEN defaultCooldown ELSE @,
                !.targets = [j \in DOMAIN @ |->
                                [@[j] EXCEPT
                                    !.id = IF @ = "" THEN GeneratedTargetId(i, j) ELSE @,
                                    !.weight = IF @ <= 0 THEN 1 ELSE @]]]]

\* UpdatePipeline(routeID, pipeline) of the route r1: validated, normalised,
\* saved and notified; the error, if any, is what it returns.
CallUpdatePipeline ==
    /\ result = Nil
    /\ LET p == Deref(args).pipeline
           errs == validatePipeline(p)
       IN  /\ result' = Ptr([op |-> "UpdatePipeline", err |-> errs # {}])
           /\ config' = IF errs # {} THEN config
                         ELSE Ptr(SavePipeline(Deref(config), "r1", Normalised(Deref(config), p)))
           /\ events' = IF errs # {} THEN events
                         ELSE Notify(events, "pipeline_updated", "r1")
    /\ UNCHANGED <<checkerVars, gin, logger, files,
                   mu, calls, requests, layers, dispatch, args>>

\* Import of a file that holds the route r1 with the pipeline.
CallImport(merge) ==
    /\ result = Nil
    /\ result' = Ptr([op |-> "Import", err |-> FALSE])
    /\ config' = Ptr(Imported(Deref(config),
                              [settings |-> "s0", health |-> Deref(config).health,
                               routes |-> <<[route |-> Deref(config).routes["r1"],
                                             pipeline |-> Deref(args).pipeline]>>],
                              merge))
    /\ events' = Notify(events, "config_imported", "")
    /\ UNCHANGED <<checkerVars, gin, logger, files,
                   mu, calls, requests, layers, dispatch, args>>

\* The pipeline of r1 before the call: one layer with one target.
StoredBefore ==
    <<[level |-> 1, strategy |-> "first_available", cooldown_seconds |-> 60,
       targets |-> <<[id |-> "t0", credential_id |-> "c", model |-> "m", weight |-> 1]>>]>>

\* A store with the route r1, with or without a default cooldown and a
\* pipeline of r1, and the pipeline a caller comes with.
PipelinesInit ==
    /\ \E health \in HealthCheckConfigs, saved \in BOOLEAN :
          LET cfg == StoreCreateRoute(NewConfig("s0", health),
                                      [id |-> "r1", name |-> "gpt", aliases |-> <<>>]).config
          IN  config = Ptr(IF saved THEN SavePipeline(cfg, "r1", StoredBefore) ELSE cfg)
    /\ events = EmptyBag
    /\ calls = <<>>
    /\ args \in {Ptr([pipeline |-> p]) : p \in PipelineInputs}
    /\ result = Nil
    /\ logger = Nil
    /\ gin = Nil
    /\ files = <<>>
    /\ states = <<>>
    /\ pipeline = <<>>
    /\ lastRequest = Nil
    /\ running = FALSE
    /\ timers = EmptyBag
    /\ probes = EmptyBag
    /\ mu = Nil
    /\ requests = <<>>
    /\ layers = <<>>
    /\ dispatch = Nil

PipelinesNext ==
    \/ CallUpdatePipeline
    \/ \E merge \in BOOLEAN : CallImport(merge)

PipelinesSpec == PipelinesInit /\ [][PipelinesNext]_vars

\* What every specification of the service leaves as it is.
ServiceOnlyInit ==
    /\ logger = Nil
    /\ gin = Nil
    /\ files = <<>>
    /\ states = <<>>
    /\ pipeline = <<>>
    /\ lastRequest = Nil
    /\ running = FALSE
    /\ timers = EmptyBag
    /\ probes = EmptyBag
    /\ mu = Nil
    /\ requests = <<>>
    /\ layers = <<>>
    /\ dispatch = Nil
    /\ args = Nil
    /\ result = Nil

----------------------------------------------------------------------------
(* The configuration service: Export and Import *)

\* time.Now() of an Export.
Times == {1, 2}

\* store.ListRoutes: the routes in one order or another.
Orders(S) == {f \in [1 .. Cardinality(S) -> S] : Range(f) = S}

\* Export: the settings, the health-check config and every route with its
\* pipeline, the pipeline of no layer where the store has none.
Export(cfg, now, order) ==
    [version |-> "1.0",
     exported_at |-> now,
     config |-> [settings |-> cfg.settings,
                 health |-> cfg.health,
                 routes |-> [i \in DOMAIN order |->
                               [route |-> cfg.routes[order[i]],
                                pipeline |-> IF order[i] \in DOMAIN cfg.pipelines
                                             THEN cfg.pipelines[order[i]] ELSE <<>>]]]]

CallExport(now, order) ==
    /\ args = Nil
    /\ result' = Ptr(Export(Deref(config), now, order))
    /\ UNCHANGED <<checkerVars, gin, config, events, logger, files,
                   mu, calls, requests, layers, dispatch, args>>

\* Import(data, false) of what Export returned; the call and the store it
\* met are kept.
ImportExported ==
    /\ result # Nil
    /\ args = Nil
    /\ BagCardinality(events) < MaxEvents
    /\ args' = Ptr([data |-> Deref(result), merge |-> FALSE, before |-> Deref(config)])
    /\ config' = Ptr(Imported(Deref(config), Deref(result).config, FALSE))
    /\ events' = Notify(events, "config_imported", "")
    /\ UNCHANGED <<checkerVars, gin, logger, files,
                   mu, calls, requests, layers, dispatch, result>>

UpdateSettings(settings) ==
    /\ BagCardinality(events) < MaxEvents
    /\ config' = Ptr([Deref(config) EXCEPT !.settings = settings])
    /\ events' = Notify(events, "settings_updated", "")
    /\ UNCHANGED <<checkerVars, gin, logger, files,
                   mu, calls, requests, layers, dispatch, args, result>>

UpdateHealthCheckConfig(health) ==
    /\ BagCardinality(events) < MaxEvents
    /\ config' = Ptr([Deref(config) EXCEPT !.health = health])
    /\ events' = Notify(events, "health_config_updated", "")
    /\ UNCHANGED <<checkerVars, gin, logger, files,
                   mu, calls, requests, layers, dispatch, args, result>>

\* The stores to export: each of r1 and r2 is absent, or there with no
\* pipeline, with the pipeline of no layer or with a pipeline of one layer.
StoredPipelines == {Nil, Ptr(<<>>), Ptr(StoredBefore)}

StoreWith(cfg, id, name, p) ==
    LET created == StoreCreateRoute(cfg, [id |-> id, name |-> name, aliases |-> <<>>]).config
    IN  IF p = Nil THEN created ELSE SavePipeline(created, id, Deref(p))

StoresToExport ==
    LET bare == {NewConfig(s, h) : s \in {"s0", "s1"}, h \in HealthCheckConfigs}
        one == bare \cup {StoreWith(cfg, "r1", "gpt", p) : cfg \in bare, p \in StoredPipelines}
    IN  one \cup {StoreWith(cfg, "r2", "pro", p) : cfg \in one, p \in StoredPipelines}

ExportInit ==
    /\ config \in {Ptr(cfg) : cfg \in StoresToExport}
    /\ events = EmptyBag
    /\ calls = <<>>
    /\ ServiceOnlyInit

ExportNext ==
    \/ \E now \in Times, order \in Orders(DOMAIN Deref(config).routes) :
          CallExport(now, order)
    \/ ImportExported
    \/ \E settings \in {"s0", "s1"} : UpdateSettings(settings)
    \/ \E health \in HealthCheckConfigs : UpdateHealthCheckConfig(health)
    \/ \E route \in RouteInputs : CreateRoute(route)
    \/ \E id \in RouteIds : DeleteRoute(id)

ExportSpec == ExportInit /\ [][ExportNext]_vars

\* A service with an empty store; its callers come one at a time.
RoutesInit ==
    /\ config = Ptr(NewConfig("s0", NoDefault))
    /\ events = EmptyBag
    /\ calls = <<>>
    /\ ServiceOnlyInit

RoutesNext ==
    \/ \E route \in RouteInputs : CreateRoute(route)
    \/ \E route \in RouteInputs : UpdateRoute(route)
    \/ \E id \in RouteIds \cup GeneratedRouteIds : DeleteRoute(id)
    \/ \E data \in RouteImports, merge \in BOOLEAN : Import(data, merge)

RoutesSpec == RoutesInit /\ [][RoutesNext]_vars

\* A service whose store holds no route or one; callers of CreateRoute and
\* UpdateRoute run together.
RouteCallsInit ==
    /\ config \in {Ptr(NewConfig("s0", NoDefault)),
                    Ptr(StoreCreateRoute(NewConfig("s0", NoDefault),
                                         [id |-> "r1", name |-> "pro", aliases |-> <<>>]).config)}
    /\ events = EmptyBag
    /\ calls = <<>>
    /\ ServiceOnlyInit

RouteCallsNext ==
    \/ \E c \in 1 .. MaxRouteCalls, route \in RouteInputs : BeginCreateRoute(c, route)
    \/ \E c \in 1 .. MaxRouteCalls, route \in RouteInputs : BeginUpdateRoute(c, route)
    \/ \E c \in 1 .. MaxRouteCalls : CheckRoute(c)
    \/ \E c \in 1 .. MaxRouteCalls : WriteRoute(c)

RouteCallsSpec == RouteCallsInit /\ [][RouteCallsNext]_vars

----------------------------------------------------------------------------
(* The detailed request logger *)

\* The sizes of the record files, in MB.
RecordSizes == {1, 2}

\* NewDetailedRequestLogger(enabled, logsDir, maxSizeMB); the writer is at
\* the head of its loop.
NewDetailedRequestLogger(enabled, maxSizeMB) ==
    [enabled |-> enabled,
     maxSizeMB |-> IF maxSizeMB <= 0 THEN defaultDetailedMaxSizeMB ELSE maxSizeMB,
     maxFiles |-> defaultDetailedMaxFiles,
     writeCh |-> <<>>,
     closed |-> FALSE,
     stopCh |-> FALSE,
     stopped |-> FALSE,
     writeCount |-> 0,
     writing |-> Nil]

RECURSIVE TotalSize(_)
TotalSize(fs) == IF fs = <<>> THEN 0 ELSE Head(fs).size + TotalSize(Tail(fs))

\* A cleanup that counts the files and never weighs them.
RECURSIVE cleanupOldFilesByCount(_, _, _)
cleanupOldFilesByCount(fs, maxFiles, maxSizeMB) ==
    IF Len(fs) > maxFiles
    THEN cleanupOldFilesByCount(Tail(fs), maxFiles, maxSizeMB)
    ELSE fs

\* A cleanup that removes the oldest file and leaves it at that.
cleanupOldFilesOnce(fs, maxFiles, maxSizeMB) ==
    IF Len(fs) > maxFiles \/ (TotalSize(fs) > maxSizeMB /\ Len(fs) > 0)
    THEN Tail(fs)
    ELSE fs

\* cleanupOldFiles: the files oldest first; the oldest goes while there are
\* too many files or too many bytes.
RECURSIVE cleanupOldFiles(_, _, _)
cleanupOldFiles(fs, maxFiles, maxSizeMB) ==
    IF Len(fs) > maxFiles \/ (TotalSize(fs) > maxSizeMB /\ Len(fs) > 0)
    THEN cleanupOldFiles(Tail(fs), maxFiles, maxSizeMB)
    ELSE fs

\* A channel that takes whatever is sent.
OfferedWithNoLimit(ch, record) == Append(ch, record)

\* select { case writeCh <- record: default: }: the channel after it.
Offered(ch, record) ==
    IF Len(ch) < detailedWriteBufferSize THEN Append(ch, record) ELSE ch

NextLogCall == Len(calls) + 1

\* LogRecord, up to the unlock: a nil record, a logger that is disabled or
\* stopped, and the call returns.
LogRecordCheck(record) ==
    /\ NextLogCall <= MaxLogCalls
    /\ calls' = Append(calls,
                       [op |-> "LogRecord", record |-> record,
                        pc |-> IF \/ record = Nil
                                  \/ ~Deref(logger).enabled
                                  \/ Deref(logger).stopped
                               THEN "returned" ELSE "send",
                        outcome |-> ""])
    /\ UNCHANGED <<checkerVars, gin, config, events, logger, files,
                   mu, requests, layers, dispatch, args, result>>

\* LogRecord, the select: the record is queued, or dropped when the channel
\* is full; a send on the closed channel panics.
LogRecordSend(c) ==
    /\ calls[c].op = "LogRecord"
    /\ calls[c].pc = "send"
    /\ IF Deref(logger).closed
       THEN /\ calls' = [calls EXCEPT ![c].pc = "panic"]
            /\ UNCHANGED logger
       ELSE LET ch == Offered(Deref(logger).writeCh, Deref(calls[c].record))
            IN  /\ logger' = Ptr([Deref(logger) EXCEPT !.writeCh = ch])
                /\ calls' = [calls EXCEPT
                                ![c].pc = "returned",
                                ![c].outcome = IF ch # Deref(logger).writeCh
                                               THEN "queued" ELSE "dropped"]
    /\ UNCHANGED <<checkerVars, gin, config, events, files,
                   mu, requests, layers, dispatch, args, result>>

\* Close, up to the unlock: a stopped logger and the call returns.
CloseCheck ==
    /\ NextLogCall <= MaxLogCalls
    /\ calls' = Append(calls,
                       [op |-> "Close", record |-> Nil,
                        pc |-> IF Deref(logger).stopped THEN "returned" ELSE "close",
                        outcome |-> ""])
    /\ logger' = Ptr([Deref(logger) EXCEPT !.stopped = TRUE])
    /\ UNCHANGED <<checkerVars, gin, config, events, files,
                   mu, requests, layers, dispatch, args, result>>

\* close(dl.writeCh)
CloseChannel(c) ==
    /\ calls[c].op = "Close"
    /\ calls[c].pc = "close"
    /\ logger' = Ptr([Deref(logger) EXCEPT !.closed = TRUE])
    /\ calls' = [calls EXCEPT ![c].pc = "wait"]
    /\ UNCHANGED <<checkerVars, gin, config, events, files,
                   mu, requests, layers, dispatch, args, result>>

\* <-dl.stopCh
CloseWait(c) ==
    /\ calls[c].op = "Close"
    /\ calls[c].pc = "wait"
    /\ Deref(logger).stopCh
    /\ calls' = [calls EXCEPT ![c].pc = "returned"]
    /\ UNCHANGED <<checkerVars, gin, config, events, logger, files,
                   mu, requests, layers, dispatch, args, result>>

\* writeLoop, for record := range dl.writeCh: the next record, or the end
\* of the loop and close(dl.stopCh) when the channel is closed and empty.
WriterReceive ==
    /\ Deref(logger).writing = Nil
    /\ ~Deref(logger).stopCh
    /\ IF Deref(logger).writeCh # <<>>
       THEN logger' = Ptr([Deref(logger) EXCEPT
                              !.writing = Ptr(Head(Deref(logger).writeCh)),
                              !.writeCh = Tail(@)])
       ELSE /\ Deref(logger).closed
            /\ logger' = Ptr([Deref(logger) EXCEPT !.stopCh = TRUE])
    /\ UNCHANGED <<checkerVars, gin, config, events, files,
                   mu, calls, requests, layers, dispatch, args, result>>

\* writeRecordFile: the file is written, the writes are counted and every
\* cleanupInterval writes the old files are cleaned up.
writeRecordFile ==
    /\ Deref(logger).writing # Nil
    /\ LET written == Append(files, Deref(Deref(logger).writing))
           writeCount == Deref(logger).writeCount + 1
       IN  /\ files' = IF writeCount % cleanupInterval = 0
                        THEN cleanupOldFiles(written, Deref(logger).maxFiles,
                                             Deref(logger).maxSizeMB)
                        ELSE written
           /\ logger' = Ptr([Deref(logger) EXCEPT !.writing = Nil,
                                                  !.writeCount = writeCount])
    /\ UNCHANGED <<checkerVars, gin, config, events,
                   mu, calls, requests, layers, dispatch, args, result>>

SetEnabled(enabled) ==
    /\ logger' = Ptr([Deref(logger) EXCEPT !.enabled = enabled])
    /\ UNCHANGED <<checkerVars, gin, config, events, files,
                   mu, calls, requests, layers, dispatch, args, result>>

SetMaxSizeMB(maxSizeMB) ==
    /\ logger' = Ptr([Deref(logger) EXCEPT
                          !.maxSizeMB = IF maxSizeMB <= 0 THEN defaultDetailedMaxSizeMB
                                        ELSE maxSizeMB])
    /\ UNCHANGED <<checkerVars, gin, config, events, files,
                   mu, calls, requests, layers, dispatch, args, result>>

\* The record a caller logs: its id is the one of the call.
RecordOf(c, size) == [id |-> c, size |-> size]

LoggerInit ==
    /\ \E enabled \in BOOLEAN, maxSizeMB \in {0, 2} :
          logger = Ptr(NewDetailedRequestLogger(enabled, maxSizeMB))
    /\ gin = Nil
    /\ files = <<>>
    /\ calls = <<>>
    /\ config = Nil
    /\ events = EmptyBag
    /\ states = <<>>
    /\ pipeline = <<>>
    /\ lastRequest = Nil
    /\ running = FALSE
    /\ timers = EmptyBag
    /\ probes = EmptyBag
    /\ mu = Nil
    /\ requests = <<>>
    /\ layers = <<>>
    /\ dispatch = Nil
    /\ args = Nil
    /\ result = Nil

LoggerNext ==
    \/ \E record \in {Nil} \cup {Ptr(RecordOf(NextLogCall, size)) : size \in RecordSizes} :
          LogRecordCheck(record)
    \/ \E c \in DOMAIN calls : LogRecordSend(c)
    \/ CloseCheck
    \/ \E c \in DOMAIN calls : CloseChannel(c)
    \/ \E c \in DOMAIN calls : CloseWait(c)
    \/ WriterReceive
    \/ writeRecordFile
    \/ \E enabled \in BOOLEAN : SetEnabled(enabled)
    \/ \E maxSizeMB \in {0, 2} : SetMaxSizeMB(maxSizeMB)

LoggerSpec == LoggerInit /\ [][LoggerNext]_vars

----------------------------------------------------------------------------
(* cleanupOldFiles over the content of a logs directory *)

\* The entries of the directory as os.ReadDir lists them: detail files and
\* others, each with its size in MB and its modification time.
DirEntries == [detail : BOOLEAN, size : {1, 2}, modTime : {1, 2, 3}]

Directories ==
    UNION {[1 .. n -> DirEntries] : n \in 0 .. MaxDirFiles}

\* The detail files of a listing, each with its place in the listing as id.
DetailFiles(entries) ==
    {[id |-> i, size |-> entries[i].size, modTime |-> entries[i].modTime] :
        i \in {j \in DOMAIN entries : entries[j].detail}}

\* sort.Slice by modTime, oldest first: files of one time in any order.
SortedByModTime(fs) ==
    {order \in [1 .. Cardinality(fs) -> fs] :
        /\ Range(order) = fs
        /\ \A i, j \in DOMAIN order : i < j => order[i].modTime <= order[j].modTime}

\* cleanupOldFiles on the directory that was listed: what is left of it.
CallCleanupOldFiles(sorted) ==
    /\ result = Nil
    /\ result' = Ptr([sorted |-> sorted,
                      remaining |-> Range(cleanupOldFiles(sorted, Deref(args).maxFiles,
                                                          Deref(args).maxSizeMB))])
    /\ UNCHANGED <<checkerVars, gin, config, events, logger, files,
                   mu, calls, requests, layers, dispatch, args>>

CleanupInit ==
    /\ args \in {Ptr([entries |-> entries, maxFiles |-> defaultDetailedMaxFiles,
                       maxSizeMB |-> maxSizeMB]) :
                     entries \in Directories, maxSizeMB \in {2, defaultDetailedMaxSizeMB}}
    /\ result = Nil
    /\ gin = Nil
    /\ calls = <<>>
    /\ config = Nil
    /\ events = EmptyBag
    /\ logger = Nil
    /\ files = <<>>
    /\ states = <<>>
    /\ pipeline = <<>>
    /\ lastRequest = Nil
    /\ running = FALSE
    /\ timers = EmptyBag
    /\ probes = EmptyBag
    /\ mu = Nil
    /\ requests = <<>>
    /\ layers = <<>>
    /\ dispatch = Nil

CleanupNext ==
    \E sorted \in SortedByModTime(DetailFiles(Deref(args).entries)) :
        CallCleanupOldFiles(sorted)

CleanupSpec == CleanupInit /\ [][CleanupNext]_vars

----------------------------------------------------------------------------
(* The recorder of upstream attempts (logging_helpers.go).  A text is the
   sequence of its pieces; every line ends with the piece "\n". *)

\* The Gin keys of the request log and of the detailed log.
apiKeys ==
    [attempts |-> "API_UPSTREAM_ATTEMPTS", request |-> "API_REQUEST",
     response |-> "API_RESPONSE"]

detailedLogKeys ==
    [attempts |-> "DETAILED_LOG_API_ATTEMPTS", request |-> "DETAILED_LOG_API_REQUEST",
     response |-> "DETAILED_LOG_API_RESPONSE"]

\* cfg: nil, or the two flags.
Configs == {Nil} \cup {Ptr(c) : c \in [DetailedRequestLog : BOOLEAN, RequestLog : BOOLEAN]}

shouldRecordAttemptsForDetailedLog(cfg) == cfg # Nil /\ Deref(cfg).DetailedRequestLog

\* A request log that records whenever either log is on.
shouldRecordAttemptsForEitherLog(cfg) ==
    cfg # Nil /\ (Deref(cfg).RequestLog \/ Deref(cfg).DetailedRequestLog)

shouldRecordAttemptsForRequestLog(cfg) == cfg # Nil /\ Deref(cfg).RequestLog

\* time.Now().Format(time.RFC3339Nano)
FormatTime(now) == IF now = 1 THEN "T1" ELSE "T2"

\* fmt.Sprintf("%d", n) of an index and of a status
FormatInt(n) ==
    CASE n = 1 -> "1" [] n = 2 -> "2" [] n = 3 -> "3" [] n = 4 -> "4"
      [] n = 5 -> "5" [] n = 200 -> "200" [] n = 500 -> "500" [] OTHER -> "0"

\* writeHeaders: "<none>" for no header, a line for the one header.
writeHeaders(headers) ==
    IF headers = <<>> THEN <<"<none>", "\n">> ELSE <<headers[1], ": ", headers[2], "\n">>

RECURSIVE Concat(_)
Concat(texts) == IF texts = <<>> THEN <<>> ELSE Head(texts) \o Concat(Tail(texts))

getAttemptsForKey(ctx, attemptsKey) ==
    IF attemptsKey \in DOMAIN ctx THEN ctx[attemptsKey] ELSE <<>>

NewAttempt(index, request) ==
    [index |-> index, request |-> request, response |-> <<>>,
     responseIntroWritten |-> FALSE, statusWritten |-> FALSE, headersWritten |-> FALSE,
     bodyStarted |-> FALSE, bodyHasContent |-> FALSE, errorWritten |-> FALSE]

\* An aggregate of the latest request alone.
updateAggregatedRequestOfLatest(ctx, attempts, requestKey) ==
    MapSet(ctx, requestKey, attempts[Len(attempts)].request)

updateAggregatedRequestForKey(ctx, attempts, requestKey) ==
    MapSet(ctx, requestKey, Concat([i \in DOMAIN attempts |-> attempts[i].request]))

\* updateAggregatedResponseForKey, the text of attempt idx.
ResponseText(attempts, idx) ==
    LET responseText == attempts[idx].response
    IN  IF responseText = <<>> THEN <<>>
        ELSE responseText
             \o (IF responseText[Len(responseText)] # "\n" THEN <<"\n">> ELSE <<>>)
             \o (IF idx < Len(attempts) THEN <<"\n">> ELSE <<>>)

updateAggregatedResponseForKey(ctx, attempts, responseKey) ==
    MapSet(ctx, responseKey, Concat([i \in DOMAIN attempts |-> ResponseText(attempts, i)]))

\* recordAPIRequestForKeys: one more attempt, with the next index.
RequestBlock(index, now, info) ==
    <<"=== API REQUEST ", FormatInt(index), " ===", "\n">>
    \o <<"Timestamp: ", FormatTime(now), "\n">>
    \o <<"Upstream URL: ", IF info.URL # "" THEN info.URL ELSE "<unknown>", "\n">>
    \o (IF info.Method # "" THEN <<"HTTP Method: ", info.Method, "\n">> ELSE <<>>)
    \o <<"\n", "Headers:", "\n">> \o writeHeaders(info.Headers)
    \o <<"\n", "Body:", "\n">>
    \o <<IF info.Body # "" THEN info.Body ELSE "<empty>", "\n", "\n">>

recordAPIRequestForKeys(ctx, keys, info, now) ==
    LET attempts == getAttemptsForKey(ctx, keys.attempts)
        index == Len(attempts) + 1
        appended == Append(attempts, NewAttempt(index, RequestBlock(index, now, info)))
    IN  updateAggregatedRequestForKey(MapSet(ctx, keys.attempts, appended),
                                      appended, keys.request)

\* ensureAttemptForKey: the context with an attempt to write to, the
\* "<missing>" one where none was recorded.
ensureAttemptForKey(ctx, keys) ==
    LET attempts == getAttemptsForKey(ctx, keys.attempts)
        missing == <<NewAttempt(1, <<"=== API REQUEST ", "1", " ===", "\n",
                                     "<missing>", "\n", "\n">>)>>
    IN  IF Len(attempts) = 0
        THEN updateAggregatedRequestForKey(MapSet(ctx, keys.attempts, missing),
                                           missing, keys.request)
        ELSE ctx

ensureResponseIntro(attempt, now) ==
    IF attempt.responseIntroWritten THEN attempt
    ELSE [attempt EXCEPT
             !.response = @ \o <<"=== API RESPONSE ", FormatInt(attempt.index), " ===", "\n",
                                 "Timestamp: ", FormatTime(now), "\n", "\n">>,
             !.responseIntroWritten = TRUE]

\* The latest attempt of the key set is written to and the response
\* aggregated again.
WithLatest(ctx, keys, attempt) ==
    LET attempts == [ctx[keys.attempts] EXCEPT ![Len(ctx[keys.attempts])] = attempt]
    IN  updateAggregatedResponseForKey(MapSet(ctx, keys.attempts, attempts),
                                       attempts, keys.response)

Latest(ctx, keys) == ctx[keys.attempts][Len(ctx[keys.attempts])]

recordAPIResponseMetadataForKeys(ctx, keys, status, headers, now) ==
    LET ensured == ensureAttemptForKey(ctx, keys)
        intro == ensureResponseIntro(Latest(ensured, keys), now)
        withStatus ==
            IF status > 0 /\ ~intro.statusWritten
            THEN [intro EXCEPT !.response = @ \o <<"Status: ", FormatInt(status), "\n">>,
                               !.statusWritten = TRUE]
            ELSE intro
        withHeaders ==
            IF ~withStatus.headersWritten
            THEN [withStatus EXCEPT
                     !.response = @ \o <<"Headers:", "\n">> \o writeHeaders(headers) \o <<"\n">>,
                     !.headersWritten = TRUE]
            ELSE withStatus
    IN  WithLatest(ensured, keys, withHeaders)

recordAPIResponseErrorForKeys(ctx, keys, err, now) ==
    LET ensured == ensureAttemptForKey(ctx, keys)
        intro == ensureResponseIntro(Latest(ensured, keys), now)
    IN  WithLatest(ensured, keys,
                   [intro EXCEPT
                       !.bodyStarted = IF @ /\ ~intro.bodyHasContent THEN FALSE ELSE @,
                       !.response = @ \o (IF intro.errorWritten THEN <<"\n">> ELSE <<>>)
                                      \o <<"Error: ", err, "\n">>,
                       !.errorWritten = TRUE])

appendAPIResponseChunkForKeys(ctx, keys, data, now) ==
    LET ensured == ensureAttemptForKey(ctx, keys)
        intro == ensureResponseIntro(Latest(ensured, keys), now)
    IN  WithLatest(ensured, keys,
                   [intro EXCEPT
                       !.response = @ \o (IF ~intro.headersWritten
                                           THEN <<"Headers:", "\n">> \o writeHeaders(<<>>) \o <<"\n">>
                                           ELSE <<>>)
                                      \o (IF ~intro.bodyStarted THEN <<"Body:", "\n">> ELSE <<>>)
                                      \o (IF intro.bodyHasContent THEN <<"\n", "\n">> ELSE <<>>)
                                      \o <<data>>,
                       !.headersWritten = TRUE,
                       !.bodyStarted = TRUE,
                       !.bodyHasContent = TRUE])

\* A recorder call under one configuration: the detailed-log keys, then the
\* keys of the request log, each if its flag is on.
Recorded(ctx, cfg, call) ==
    LET ForKeys(c, keys) ==
            CASE call.op = "recordAPIRequest" ->
                    recordAPIRequestForKeys(c, keys, call.info, call.now)
              [] call.op = "recordAPIResponseMetadata" ->
                    recordAPIResponseMetadataForKeys(c, keys, call.status, call.headers, call.now)
              [] call.op = "recordAPIResponseError" ->
                    recordAPIResponseErrorForKeys(c, keys, Deref(call.err), call.now)
              [] call.op = "appendAPIResponseChunk" ->
                    appendAPIResponseChunkForKeys(c, keys, call.data, call.now)
        returnsEarly ==
            \/ call.op = "recordAPIResponseError" /\ call.err = Nil
            \/ call.op = "appendAPIResponseChunk" /\ call.data = ""
        detailed == IF shouldRecordAttemptsForDetailedLog(cfg)
                    THEN ForKeys(ctx, detailedLogKeys) ELSE ctx
    IN  IF returnsEarly THEN ctx
        ELSE IF shouldRecordAttemptsForRequestLog(cfg)
             THEN ForKeys(detailed, apiKeys) ELSE detailed

\* The calls of the executor in one request.
HeaderInputs == {<<>>, <<"X-Id", "7">>}

RecorderCalls ==
    [op : {"recordAPIRequest"}, now : {1, 2},
     info : [URL : {"", "u"}, Method : {"POST"}, Body : {"", "b"},
             Headers : HeaderInputs]] \cup
    [op : {"recordAPIResponseMetadata"}, now : {1, 2}, status : {0, 200},
     headers : HeaderInputs] \cup
    [op : {"recordAPIResponseError"}, now : {1, 2}, err : {Nil, Ptr("e")}] \cup
    [op : {"appendAPIResponseChunk"}, now : {1, 2}, data : {"", "c"}]

\* One recorder call of the request, made under every configuration of the
\* flags, each on the gin.Context of its own.
Record(call) ==
    /\ Len(calls) < MaxRecorderCalls
    /\ calls' = Append(calls, call)
    /\ gin' = Ptr([cfg \in Configs |-> Recorded(Deref(gin)[cfg], cfg, call)])
    /\ UNCHANGED <<checkerVars, config, events, logger, files,
                   mu, requests, layers, dispatch, args, result>>

recordAPIRequest == \E call \in RecorderCalls : call.op = "recordAPIRequest" /\ Record(call)

recordAPIResponseMetadata ==
    \E call \in RecorderCalls : call.op = "recordAPIResponseMetadata" /\ Record(call)

recordAPIResponseError ==
    \E call \in RecorderCalls : call.op = "recordAPIResponseError" /\ Record(call)

appendAPIResponseChunk ==
    \E call \in RecorderCalls : call.op = "appendAPIResponseChunk" /\ Record(call)

RecorderInit ==
    /\ gin = Ptr([cfg \in Configs |-> <<>>])
    /\ calls = <<>>
    /\ config = Nil
    /\ events = EmptyBag
    /\ logger = Nil
    /\ files = <<>>
    /\ states = <<>>
    /\ pipeline = <<>>
    /\ lastRequest = Nil
    /\ running = FALSE
    /\ timers = EmptyBag
    /\ probes = EmptyBag
    /\ mu = Nil
    /\ requests = <<>>
    /\ layers = <<>>
    /\ dispatch = Nil
    /\ args = Nil
    /\ result = Nil

RecorderNext ==
    \/ recordAPIRequest
    \/ recordAPIResponseMetadata
    \/ recordAPIResponseError
    \/ appendAPIResponseChunk

RecorderSpec == RecorderInit /\ [][RecorderNext]_vars

\* Time goes by, a due timer fires and the goroutine of its callback, once
\* started, runs: the Go runtime sees to each of them.
LiveSpec ==
    /\ Spec
    /\ WF_vars(Tick)
    /\ WF_vars(\E r \in BagToSet(timers) : TimerFire(r))
    /\ WF_vars(\E r \in BagToSet(timers) : DueEnter(r))

----------------------------------------------------------------------------
(* Properties *)

\* The timer of the map entry of t is there and has not fired yet.
HasScheduledLive(tm, t) == \E r \in ScheduledTimers(tm, t) : r.pc = "pending"

\* A probe of t is in flight, on the scheduled or on the on-request path.
ProbeInFlight(t) ==
    \/ \E r \in BagToSet(timers) : r.target = t /\ r.pc = "probe"
    \/ \E p \in BagToSet(probes) : p.target = t /\ p.pc = "probe"

\* C1: in every reachable state a stored target whose status is healthy has
\* cooldown_ends_at = nil.
HealthyHasNoCooldownEnd ==
    \A t \in DOMAIN states :
        states[t].status = StatusHealthy => states[t].cooldown_ends_at = Nil

\* A healthy target that still has a live timer: it was in timed cooling, with
\* a cooldown end, and was made healthy since.
HealthyAfterTimedCooling ==
    \E t \in DOMAIN states :
        states[t].status = StatusHealthy /\ LiveTimers(timers, t) > 0

\* C2: in every reachable state a stored target whose status is healthy has
\* consecutive_failures = 0.
HealthyHasNoFailures ==
    \A t \in DOMAIN states :
        states[t].status = StatusHealthy => states[t].consecutive_failures = 0

\* C3: in every reachable state a stored target whose status is checking has
\* cooldown_ends_at = nil.
CheckingHasNoCooldownEnd ==
    \A t \in DOMAIN states :
        states[t].status = StatusChecking => states[t].cooldown_ends_at = Nil

\* A target is checking while its probe is in flight, with failures recorded
\* on it and another timer of it still to fire.
CheckingWhileProbed ==
    \E t \in DOMAIN states :
        /\ states[t].status = StatusChecking
        /\ states[t].consecutive_failures > 0
        /\ ProbeInFlight(t)
        /\ LiveTimers(timers, t) > 0

\* The steps StartCooldownUntimed(t) and ForceCooldown(t), taken on a target in
\* timed cooling whose recovery timer is scheduled and has not fired.
UntimedAfterScheduled(t) ==
    /\ TimedCooling(GetTargetState(states, t))
    /\ HasScheduledLive(timers, t)
    /\ (CallStartCooldownUntimed(t) \/ CallForceCooldown(t))

\* C4, as the claim has it: StartCooldownUntimed(t) or ForceCooldown(t), after
\* StartCooldownTimed(t) and ScheduleTargetCheck(t), leaves t cooling with
\* cooldown_ends_at = nil and no live timer of t.
UntimedLeavesNoTimer ==
    [][\A t \in Targets :
          UntimedAfterScheduled(t) =>
              /\ GetTargetState(states', t).status = StatusCooling
              /\ GetTargetState(states', t).cooldown_ends_at = Nil
              /\ LiveTimers(timers', t) = 0]_vars

\* C4, amended: the step leaves t cooling with cooldown_ends_at = nil and leaves
\* every timer as it was, the recovery timer of t still live; a timer of t
\* whose callback runs while t is not in timed cooling ends there, with no
\* probe started and no state changed.
UntimedLeavesTimerInert ==
    [][/\ \A t \in Targets :
             UntimedAfterScheduled(t) =>
                 /\ GetTargetState(states', t).status = StatusCooling
                 /\ GetTargetState(states', t).cooldown_ends_at = Nil
                 /\ timers' = timers
                 /\ HasScheduledLive(timers', t)
       /\ \A r \in BagToSet(timers) :
             (DueEnter(r) /\ ~TimedCooling(GetTargetState(states, r.target))) =>
                 /\ states' = states
                 /\ BagCardinality(timers') = BagCardinality(timers) - 1
                 /\ \A x \in BagToSet(timers') :
                        x.pc = "probe" => CopiesIn(x, timers') = CopiesIn(x, timers)]_vars

\* A target put to untimed cooling with no probe ever failed on it, its
\* recovery timer still to fire.
UntimedWithLiveTimer ==
    \E t \in DOMAIN states :
        /\ states[t].status = StatusCooling
        /\ states[t].cooldown_ends_at = Nil
        /\ states[t].consecutive_failures = 0
        /\ HasScheduledLive(timers, t)

\* C5: for a target t in timed cooling, two calls of ScheduleTargetCheck(t) in
\* a row leave exactly one live timer of t.
ScheduleTwiceLeavesOneTimer ==
    \A t \in Targets :
        TimedCooling(GetTargetState(states, t)) =>
            LiveTimers(ScheduleTargetCheck(ScheduleTargetCheck(timers, states, t),
                                           states, t), t) = 1

\* The callback of a timer of t has marked t checking and is probing it.
ProbedByTimer(t) == \E r \in BagToSet(timers) : r.target = t /\ r.pc = "probe"

\* A target in timed cooling under a running checker, a timer of it to fire.
AwaitsProbe(t) ==
    running /\ TimedCooling(GetTargetState(states, t)) /\ LiveTimers(timers, t) > 0

\* The callback of a timer probes t, or t has left timed cooling, or the
\* checker is stopped.
ProbedOrReleased(t) ==
    ProbedByTimer(t) \/ ~running \/ ~TimedCooling(GetTargetState(states, t))

\* Start leaves a timer scheduled for every target in timed cooling.
StartSchedulesExisting ==
    [][Start => \A t \in DOMAIN states :
                   TimedCooling(states[t]) => HasScheduledLive(timers', t)]_vars

DueUnhealthy(r) ==
    /\ HasRoute(r.target)
    /\ GetTargetState(states, r.target).status = StatusChecking
    /\ DueCheckTarget(r, FALSE)

Spawned(t) == CopiesIn(NewProbe(t), probes') - CopiesIn(NewProbe(t), probes)

\* C9: an on-request sweep starts one probe for each enabled target of the
\* route whose status is cooling and whose cooldown_ends_at is nil or not after
\* now, and for no other target: none for a healthy, a checking or a disabled
\* target, a target out of the pipeline, or one whose cooldown end is to come.
SweepProbesExactlyEligible ==
    [][TriggerCheckUntimedCoolingTargets =>
          \A t \in SweepTargets :
              Spawned(t) =
                  IF /\ t \in DOMAIN pipeline
                     /\ pipeline[t]
                     /\ GetTargetState(states, t).status = StatusCooling
                     /\ \/ GetTargetState(states, t).cooldown_ends_at = Nil
                        \/ GetTargetState(states, t).cooldown_ends_at = Ptr(0)
                  THEN 1 ELSE 0]_vars

\* A sweep has started a probe for t1, cooling and due, and none for t2, which
\* is enabled in the same pipeline and cooling until later.
SweepTookOneOfTwo ==
    /\ DOMAIN pipeline = SweepTargets
    /\ pipeline["t1"] /\ pipeline["t2"]
    /\ GetTargetState(states, "t1") = [NewTargetState(StatusCooling) EXCEPT !.cooldown_ends_at = Ptr(0)]
    /\ TimedCooling(GetTargetState(states, "t2"))
    /\ Deref(GetTargetState(states, "t2").cooldown_ends_at) > 0
    /\ probes = SetToBag({NewProbe("t1")})

\* The steps in which the goroutine of an on-request probe ends.
ProbeCompletes(p) ==
    \/ ProbeCheckTarget(p, TRUE)
    \/ ~HasRoute(p.target) /\ ProbeCheckTarget(p, FALSE)
    \/ ProbeSchedule(p)

\* C10: an on-request probe completes with the target healthy, or in timed
\* cooling with a live timer scheduled for it.
ProbeEndsHealthyOrTimed ==
    [][\A p \in BagToSet(probes) :
          ProbeCompletes(p) =>
              \/ GetTargetState(states', p.target).status = StatusHealthy
              \/ /\ TimedCooling(GetTargetState(states', p.target))
                 /\ HasScheduledLive(timers', p.target)]_vars

\* The steps in which a probe ends, CheckTarget having returned and the result
\* being applied, on a target that is checking.
ProbeOfCheckingEnds(t) ==
    /\ GetTargetState(states, t).status = StatusChecking
    /\ \/ \E r \in BagToSet(timers), healthy \in BOOLEAN :
              r.target = t /\ DueCheckTarget(r, healthy)
       \/ \E p \in BagToSet(probes), healthy \in BOOLEAN :
              p.target = t /\ ProbeCheckTarget(p, healthy)

\* C11: checking is transient: when the probe of a checking target ends, on the
\* scheduled or the on-request path, the error of CheckTarget included, the
\* target leaves checking for healthy or cooling.
CheckingEndsWithProbe ==
    [][\A t \in Targets :
          ProbeOfCheckingEnds(t) =>
              GetTargetState(states', t).status \in {StatusHealthy, StatusCooling}]_vars

\* C12: Stop leaves no live timer of any target, and a callback that passed
\* the running check before Stop leaves none when it reschedules after Stop.
\* (A callback is past that check only in a checker that was started, so one
\* that finds the checker not running comes after Stop.)
StopLeavesNoLiveTimer ==
    [][\A t \in Targets :
          /\ Stop => LiveTimers(timers', t) = 0
          /\ (~running /\ \E r \in BagToSet(timers) : r.target = t /\ DueReschedule(r))
                 => LiveTimers(timers', t) = 0]_vars

\* The calls on t that have written their state back.
Written(t) == {c \in DOMAIN calls : calls[c].target = t /\ calls[c].pc \in {"unlock", "done"}}

\* C13: each RecordFailure(t) adds exactly 1 to consecutive_failures and
\* exactly 1 to total_requests of t, and with calls of RecordFailure and
\* RecordSuccess interleaved no update is lost: the calls that have written
\* have added one each to total_requests.
RecordFailureAddsOne ==
    /\ [][\A c \in DOMAIN calls :
             (WriteState(c) /\ calls[c].op = "RecordFailure") =>
                 /\ GetTargetState(states', calls[c].target).consecutive_failures =
                        GetTargetState(states, calls[c].target).consecutive_failures + 1
                 /\ GetCounters(requests', calls[c].target).total_requests =
                        GetCounters(requests, calls[c].target).total_requests + 1]_vars
    /\ [](\A t \in Targets :
             GetCounters(requests, t).total_requests = Cardinality(Written(t)))

\* Calls of both kinds on one target contend: a RecordSuccess is complete, a
\* RecordFailure has written and still holds the mutex, a third call waits.
CallsContend ==
    \E c, d, e \in DOMAIN calls :
        /\ calls[c].op = "RecordSuccess" /\ calls[c].pc = "done"
        /\ calls[d].op = "RecordFailure" /\ calls[d].pc = "unlock" /\ mu = Ptr(d)
        /\ calls[e].pc = "lock"
        /\ calls[c].target = calls[d].target /\ calls[d].target = calls[e].target
        /\ GetCounters(requests, calls[d].target).total_requests = 2

----------------------------------------------------------------------------
(* The routing engine *)

\* The attempts of the dispatch made in the layer of that level.
AttemptsIn(d, level) == {i \in DOMAIN d.attempts : d.attempts[i].level = level}

\* The dispatch went over three layers in a row: every attempt in the first
\* failed with a retryable error, the second had no healthy enabled target,
\* the third never ran out of them and none of its targets failed with a
\* non-retryable error.
FailedOver(d, a) ==
    LET b == NextLevel(layers, a)
        c == NextLevel(layers, b)
    IN  /\ b # 0 /\ c # 0
        /\ AttemptsIn(d, a) # {}
        /\ \A i \in AttemptsIn(d, a) : d.attempts[i].class = ErrorClassRetryable
        /\ b \in d.empty /\ AttemptsIn(d, b) = {}
        /\ c \notin d.empty
        /\ \A i \in AttemptsIn(d, c) : d.attempts[i].class # ErrorClassNonRetryable

\* The dispatch ended with the answer of a target of the layer of that level.
SucceededOn(d, level) ==
    /\ d.outcome = "success"
    /\ d.attempts[Len(d.attempts)].level = level
    /\ d.attempts[Len(d.attempts)].class = "ok"

\* Between two steps of the engine every target that failed with a retryable
\* error is in timed cooling.
FailedAreCooling(d) ==
    \A i \in DOMAIN d.attempts :
        d.attempts[i].class = ErrorClassRetryable =>
            TimedCooling(GetTargetState(states, d.attempts[i].target))

\* C15: a dispatch whose attempts in layer N all fail with a retryable error,
\* that finds no healthy enabled target in layer N+1 and a healthy enabled
\* target that answers in layer N+2, ends, and ends with the answer of a
\* target of layer N+2; whenever the engine selects a target, every target
\* that failed before is in timed cooling.
DispatchFailsOverToThirdLayer ==
    /\ [](dispatch # Nil =>
            LET d == Deref(dispatch) IN
            /\ FailedAreCooling(d)
            /\ \A a \in Levels :
                  (d.pc = "done" /\ FailedOver(d, a)) =>
                      SucceededOn(d, NextLevel(layers, NextLevel(layers, a))))
    /\ (dispatch # Nil ~> (dispatch # Nil /\ Deref(dispatch).pc = "done"))

\* A dispatch has ended on the third layer after a failure in the first,
\* the target that failed in timed cooling with its check scheduled.
SucceededOnThirdLayer ==
    /\ dispatch # Nil
    /\ Deref(dispatch).pc = "done"
    /\ \E a \in Levels : FailedOver(Deref(dispatch), a)
    /\ Deref(dispatch).outcome = "success"
    /\ \E t \in Deref(dispatch).cooled :
          TimedCooling(GetTargetState(states, t)) /\ LiveTimers(timers, t) = 1

\* The status of every target of the route.
Statuses(s) == [t \in RouteTargets |-> GetTargetState(s, t).status]

\* C16: the step of the engine on an error classified NonRetryable ends the
\* dispatch with that attempt as its last, changes the status of no target
\* and schedules no check; a dispatch that has ended attempts nothing more.
NonRetryableStopsDispatch ==
    [][dispatch # Nil =>
          LET d == Deref(dispatch) IN
          /\ (/\ d.pc = "failed"
               /\ ClassifyError(d.err) = ErrorClassNonRetryable
               /\ dispatch' # dispatch)
                  => /\ Deref(dispatch').pc = "done"
                     /\ Deref(dispatch').outcome = "non_retryable"
                     /\ Len(Deref(dispatch').attempts) = Len(d.attempts) + 1
                     /\ Deref(dispatch').cooled = d.cooled
                     /\ Statuses(states') = Statuses(states)
                     /\ timers' = timers
          /\ d.pc = "done" => dispatch' = dispatch]_vars

\* A dispatch stopped by a non-retryable error of a target that is healthy
\* still, another healthy enabled target of the same layer left untried.
StoppedWithTargetsLeft ==
    /\ dispatch # Nil
    /\ Deref(dispatch).pc = "done"
    /\ Deref(dispatch).outcome = "non_retryable"
    /\ LET d == Deref(dispatch)
           available == GetAvailableTargetsInLayer(states, pipeline,
                                                   LayerAt(layers, d.level), {})
       IN  /\ Len(available) = 2
           /\ Deref(d.target) \in Range(available)
           /\ Len(d.attempts) = 1

----------------------------------------------------------------------------
(* Target selection and the route overview *)

\* The enabled targets of the layer that the store holds as healthy, in
\* declared order.
EnabledAndHealthy(layer) ==
    SelectSeq(layer.targets,
              LAMBDA t : pipeline[t] /\ GetTargetState(states, t).status = StatusHealthy)

\* C17: GetAvailableTargetsInLayer returns, in declared order, exactly the
\* targets of the layer that are enabled and healthy in the store, whatever
\* the read of the state returns: never a disabled, a cooling or a checking
\* target.
AvailableAreEnabledAndHealthy ==
    (args # Nil /\ Deref(args).op = "GetAvailableTargetsInLayer") =>
        Deref(result) = EnabledAndHealthy(layers[Deref(args).layer])

\* The levels of the layers that hold a target healthy in the store.
HealthyLevels ==
    {layers[i].level : i \in {j \in DOMAIN layers : HealthyInLayer(states, layers[j]) > 0}}

\* The lowest of them.
LowestHealthyLevel == CHOOSE l \in HealthyLevels : \A k \in HealthyLevels : l <= k

\* C18: in the RouteState of GetRouteState at most one layer is active: the
\* layer of the lowest level among those with a healthy target, whatever the
\* order in which the pipeline stores its layers, and active_layer is that
\* level; a layer without a healthy target is exhausted, any other standby.
ActiveIsLowestHealthyLayer ==
    (args # Nil /\ Deref(args).op = "GetRouteState") =>
        LET rs == Deref(result) IN
        /\ Len(rs.layer_states) = Len(layers)
        /\ \A i \in DOMAIN layers :
              /\ rs.layer_states[i].level = layers[i].level
              /\ rs.layer_states[i].status =
                    IF HealthyInLayer(states, layers[i]) = 0 THEN "exhausted"
                    ELSE IF layers[i].level = LowestHealthyLevel THEN "active"
                    ELSE "standby"
        /\ HealthyLevels # {} => rs.active_layer = LowestHealthyLevel

----------------------------------------------------------------------------
(* The classification of errors *)

\* ClassifyError was called with an error that is or wraps one of that kind.
ClassifiedWith(kind) ==
    /\ result # Nil
    /\ Deref(args).err # Nil
    /\ ErrorsIs(Deref(Deref(args).err), kind)

\* C19: ClassifyError never returns Retryable for an error that is or wraps
\* a context cancellation, whatever else the error carries: an auth error
\* flagged retryable, a 429 or 5xx status, a network or overload keyword.
CanceledIsNeverRetryable ==
    ClassifiedWith("canceled") => Deref(result) = ErrorClassNonRetryable

\* The cancellation was wrapped in an auth error flagged retryable with a
\* 429 status, its text naming an overload and a network failure.
CanceledUnderRetryableClassified ==
    /\ ClassifiedWith("canceled")
    /\ LET err == Deref(Deref(args).err) IN
       /\ Len(err.chain) = 2
       /\ err.chain[1] = [kind |-> "auth", retryable |-> TRUE, code |-> 429]
       /\ err.chain[2].kind = "canceled"
       /\ err.text = {"Overloaded", "connection reset"}
    /\ Deref(result) = ErrorClassNonRetryable

\* C20: an error that is or wraps the cancellation of the context (the client
\* disconnected) or the expiry of its deadline is never classified Retryable.
CanceledOrDeadlineIsNeverRetryable ==
    (ClassifiedWith("canceled") \/ ClassifiedWith("deadline")) =>
        Deref(result) # ErrorClassRetryable

\* The error ClassifyError was called with, once it has returned.
Classified == Deref(Deref(args).err)

\* ClassifyError has returned for an error that wraps no cancellation and no
\* auth error flagged retryable, and that carries a status: that of its first
\* auth error, or else of its first StatusError.
ClassifiedByStatus ==
    /\ result # Nil
    /\ Deref(args).err # Nil
    /\ ~ErrorsIs(Classified, "canceled")
    /\ \A i \in DOMAIN Classified.chain : ~Classified.chain[i].retryable
    /\ (ErrorsIs(Classified, "auth") \/ ErrorsIs(Classified, "status"))

CarriedStatus ==
    IF ErrorsIs(Classified, "auth") THEN Deref(ErrorsAs(Classified, "auth")).code
    ELSE Deref(ErrorsAs(Classified, "status")).code

\* The table of the statuses, 0 and 400 and more.
StatusTable(code, text) ==
    IF code = 400
    THEN IF \E phrase \in text : ToLower(phrase) \in overloadKeywords
         THEN ErrorClassRetryable ELSE ErrorClassNonRetryable
    ELSE IF code \in {413, 422} THEN ErrorClassNonRetryable
    ELSE IF code \in {401, 402, 403, 404, 429} \/ code >= 500 THEN ErrorClassRetryable
    ELSE IF code >= 400 /\ code <= 499 THEN ErrorClassNonRetryable
    ELSE ErrorClassRetryable

ClassifiedAuthError ==
    /\ result # Nil
    /\ Deref(args).err # Nil
    /\ ~ErrorsIs(Classified, "canceled")
    /\ ErrorsIs(Classified, "auth")

\* The auth error errors.As finds.
AuthError == Deref(ErrorsAs(Classified, "auth"))

\* C22: for an auth error that wraps no cancellation the class is Retryable
\* if and only if its Retryable flag is set, whatever its HTTP status.
AuthFlagHonouredAsIs ==
    ClassifiedAuthError =>
        (Deref(result) = ErrorClassRetryable <=> AuthError.retryable)

\* C22, amended: for an auth error that wraps no cancellation the class is
\* Retryable when its Retryable flag is set, and the class the table gives
\* to its HTTP status and message when the flag is not set.
AuthFlagHonouredOrStatusTable ==
    ClassifiedAuthError =>
        Deref(result) = IF AuthError.retryable THEN ErrorClassRetryable
                        ELSE StatusTable(AuthError.code, Classified.text)

\* An auth error with the flag not set and status 429 was classified
\* Retryable.
UnflaggedRateLimitClassified ==
    /\ ClassifiedAuthError
    /\ ~AuthError.retryable
    /\ AuthError.code = 429
    /\ Deref(result) = ErrorClassRetryable

----------------------------------------------------------------------------
(* The configuration service *)

\* C23: no two stored routes share a name or an alias but for the case,
\* after any CreateRoute, UpdateRoute, DeleteRoute and Import.
RouteNamesAreDisjoint ==
    \A r1, r2 \in ListRoutes(Deref(config)) :
        r1 # r2 => LowerNames(r1) \cap LowerNames(r2) = {}

\* The call has returned without an error: its route was written.
Succeeded(c) == calls[c].pc = "done" /\ ~calls[c].err

\* C24: of two calls of CreateRoute or UpdateRoute that run together, for
\* two routes whose names or aliases collide, at most one succeeds.
CollidingCallsDoNotBothSucceed ==
    \A c2 \in DOMAIN calls : \A c1 \in calls[c2].during :
        (/\ Succeeded(c1) /\ Succeeded(c2)
         /\ calls[c1].route.id # calls[c2].route.id)
            => LowerNames(calls[c1].route) \cap LowerNames(calls[c2].route) = {}

\* What the caller of UpdatePipeline came with, and what it got.
PipelineGiven == Deref(args).pipeline

AllTargets(p) == UNION {Range(p[i].targets) : i \in DOMAIN p}

\* A pipeline no UpdatePipeline is to accept: no layer, a layer with no
\* target, a level twice, a strategy outside the enum, a target with no
\* credential or no model.
Defective(p) ==
    \/ Len(p) = 0
    \/ \E i \in DOMAIN p : Len(p[i].targets) = 0
    \/ \E i, j \in DOMAIN p : i # j /\ p[i].level = p[j].level
    \/ \E i \in DOMAIN p : p[i].strategy \notin ValidStrategies
    \/ \E t \in AllTargets(p) : t.credential_id = "" \/ t.model = ""

UpdatePipelineReturns ==
    result = Nil /\ result' # Nil /\ Deref(result').op = "UpdatePipeline"

\* C25: UpdatePipeline with a defective pipeline (no layer, a layer with no
\* target, a duplicate level, a strategy outside the enum, a target with an
\* empty credential_id or model) returns an error, leaves the stored
\* configuration as it was and emits no event.
DefectivePipelineIsRejected ==
    [][(UpdatePipelineReturns /\ Defective(PipelineGiven))
          => (Deref(result').err /\ config' = config /\ events' = events)]_vars

\* Witness of C25: a pipeline whose only defect is a level given twice was
\* rejected, and the pipeline stored before is still there.
DuplicateLevelRejected ==
    /\ result # Nil
    /\ Deref(result).op = "UpdatePipeline"
    /\ Deref(result).err
    /\ Len(PipelineGiven) = 2
    /\ PipelineGiven[1].level = PipelineGiven[2].level
    /\ \A i \in DOMAIN PipelineGiven :
          /\ PipelineGiven[i].strategy \in ValidStrategies
          /\ Len(PipelineGiven[i].targets) > 0
    /\ \A t \in AllTargets(PipelineGiven) : t.credential_id # "" /\ t.model # ""
    /\ "r1" \in DOMAIN Deref(config).pipelines
    /\ Deref(config).pipelines["r1"] = StoredBefore
    /\ events = EmptyBag

\* The ids of the targets of a pipeline, one by one.
TargetIdsUnique(p) ==
    \A i, k \in DOMAIN p : \A j \in DOMAIN p[i].targets, l \in DOMAIN p[k].targets :
        <<i, j>> # <<k, l>> => p[i].targets[j].id # p[k].targets[l].id

\* C26: in every stored pipeline, after any UpdatePipeline and any Import,
\* no two targets have the same id, the ids a caller supplies included.
StoredTargetIdsAreUnique ==
    \A r \in DOMAIN Deref(config).pipelines :
        TargetIdsUnique(Deref(config).pipelines[r])

\* The routes of an export, each with its pipeline.
ExportedRoutes(d) == Range(d.config.routes)

\* Two exports that are equal but for the time and the order of the routes.
ExportsAgree(e, d) ==
    /\ e.version = d.version
    /\ e.config.settings = d.config.settings
    /\ e.config.health = d.config.health
    /\ ExportedRoutes(e) = ExportedRoutes(d)
    /\ Len(e.config.routes) = Len(d.config.routes)

\* C27: after d = Export() and Import(d, merge = false), whatever the store
\* was when the import began, a new Export equals d in its settings, its
\* health-check config, its routes and the pipeline of each, the times set
\* aside; a route that is not in d is not in the store any more.
ImportOfExportRestoresIt ==
    [][(args = Nil /\ args' # Nil)
          => /\ \A now \in Times, order \in Orders(DOMAIN Deref(config').routes) :
                   ExportsAgree(Export(Deref(config'), now, order), Deref(args').data)
             /\ DOMAIN Deref(config').routes =
                   {rwp.route.id : rwp \in ExportedRoutes(Deref(args').data)}]_vars

\* Witness of C27: the export held r1 with a pipeline of one layer; when it
\* was imported the store had other settings and a route that the export
\* does not hold; now the store exports as it did, at another time.
ExportRestoredOverChangedStore ==
    /\ args # Nil
    /\ LET d == Deref(args).data
           before == Deref(args).before
       IN  /\ [route |-> [id |-> "r1", name |-> "gpt", aliases |-> <<>>],
                pipeline |-> StoredBefore] \in ExportedRoutes(d)
           /\ before.settings # d.config.settings
           /\ \E id \in DOMAIN before.routes :
                 id \notin {rwp.route.id : rwp \in ExportedRoutes(d)}
           /\ \A order \in Orders(DOMAIN Deref(config).routes) :
                 ExportsAgree(Export(Deref(config), 2, order), d)
           /\ d.exported_at = 1

\* The queue of the logger and the callers that are at the select.
Queue == Deref(logger).writeCh

Sending == {c \in DOMAIN calls : calls[c].op = "LogRecord" /\ calls[c].pc = "send"}

\* C28: LogRecord never blocks: a caller at the select can always take its
\* step; the queue never holds more than detailedWriteBufferSize records;
\* and a record that is offered when the queue is full is dropped, the queue
\* staying as it is.
LogRecordNeverBlocksNorOverfills ==
    /\ [](Len(Queue) <= detailedWriteBufferSize)
    /\ [](\A c \in Sending : ENABLED LogRecordSend(c))
    /\ [][\A c \in Sending :
             (/\ calls'[c].pc # "send"
              /\ Len(Queue) = detailedWriteBufferSize
              /\ ~Deref(logger).closed)
                 => (/\ Deref(logger').writeCh = Queue
                     /\ calls'[c].pc = "returned"
                     /\ calls'[c].outcome = "dropped")]_vars

\* Witness of C28: a record was offered while the queue was full and was
\* dropped; the queue holds what it held, as much as it can.
RecordDroppedOnFullQueue ==
    /\ Len(Queue) = detailedWriteBufferSize
    /\ \E c \in DOMAIN calls :
          /\ calls[c].op = "LogRecord"
          /\ calls[c].pc = "returned"
          /\ calls[c].outcome = "dropped"
          /\ Deref(calls[c].record) \notin Range(Queue)

\* The Close calls that have returned.
Closed == {c \in DOMAIN calls : calls[c].op = "Close" /\ calls[c].pc = "returned"}

\* C29: when a Close call has returned, the first or a second one issued
\* while the first is still draining, the queue has been drained: no record
\* is queued or being written.
CloseReturnsAfterDrain ==
    Closed # {} => (Queue = <<>> /\ Deref(logger).writing = Nil)

\* The limits of the directory, and a step that writes a record file.
WithinLimits(fs, dl) == Len(fs) <= dl.maxFiles /\ TotalSize(fs) <= dl.maxSizeMB

RecordWritten == Deref(logger').writeCount = Deref(logger).writeCount + 1

Stored(ctx, keys) ==
    [k \in {"attempts", "request", "response"} |->
        IF keys[k] \in DOMAIN ctx THEN Ptr(ctx[keys[k]]) ELSE Nil]

NothingStored == [k \in {"attempts", "request", "response"} |-> Nil]

GinOf(cfg) == Deref(gin)[cfg]

\* The flag of a configuration, off where there is none.
DetailedLogOn(cfg) == cfg # Nil /\ Deref(cfg).DetailedRequestLog

RequestLogOn(cfg) == cfg # Nil /\ Deref(cfg).RequestLog

\* C31: after any sequence of recorder calls of one request, what is stored
\* under the detailed-log keys is the same under any two configurations with
\* the same detailed-log flag, whatever their request-log flags, and what is
\* stored under the request-log keys is the same under any two with the same
\* request-log flag; under a flag that is off the key set holds nothing.
KeySetsDoNotInterfere ==
    \A c1, c2 \in Configs :
        /\ DetailedLogOn(c1) = DetailedLogOn(c2)
              => Stored(GinOf(c1), detailedLogKeys) = Stored(GinOf(c2), detailedLogKeys)
        /\ RequestLogOn(c1) = RequestLogOn(c2)
              => Stored(GinOf(c1), apiKeys) = Stored(GinOf(c2), apiKeys)
        /\ ~DetailedLogOn(c1)
              => Stored(GinOf(c1), detailedLogKeys) = NothingStored
        /\ ~RequestLogOn(c1)
              => Stored(GinOf(c1), apiKeys) = NothingStored

\* Witness of C31: two attempts and a response were recorded; with the
\* detailed log alone the detailed keys hold them and the request-log keys
\* nothing, with both logs on the detailed keys hold the same.
DetailedAloneRecordedTwoAttempts ==
    LET alone == GinOf(Ptr([DetailedRequestLog |-> TRUE, RequestLog |-> FALSE]))
        both == GinOf(Ptr([DetailedRequestLog |-> TRUE, RequestLog |-> TRUE]))
    IN  /\ detailedLogKeys.attempts \in DOMAIN alone
        /\ Len(alone[detailedLogKeys.attempts]) = 2
        /\ detailedLogKeys.response \in DOMAIN alone
        /\ alone[detailedLogKeys.response] # <<>>
        /\ Stored(alone, apiKeys) = NothingStored
        /\ Stored(both, detailedLogKeys) = Stored(alone, detailedLogKeys)
        /\ Stored(both, apiKeys) # NothingStored

\* The sizes of a set of files together.
RECURSIVE SizeOf(_)
SizeOf(fs) ==
    IF fs = {} THEN 0
    ELSE LET f == CHOOSE x \in fs : TRUE IN f.size + SizeOf(fs \ {f})

FitsLimits(fs) ==
    Cardinality(fs) <= Deref(args).maxFiles /\ SizeOf(fs) <= Deref(args).maxSizeMB

\* C32: when cleanupOldFiles has returned, the detail files that remain are
\* the newest ones, as many as fit: they are within both limits, no file
\* that was removed is newer than one that remains, the newest file removed
\* would not fit with them, and nothing is removed from a directory that is
\* within the limits; the sweep ends on every directory.
CleanupKeepsNewestThatFit ==
    /\ result = Nil =>
          \A sorted \in SortedByModTime(DetailFiles(Deref(args).entries)) :
              ENABLED CallCleanupOldFiles(sorted)
    /\ result # Nil =>
          LET all == DetailFiles(Deref(args).entries)
              kept == Deref(result).remaining
              sorted == Deref(result).sorted
              removed == all \ kept
          IN  /\ kept \subseteq all
              /\ FitsLimits(kept)
              /\ \A f \in removed, g \in kept : f.modTime <= g.modTime
              /\ \A i, j \in DOMAIN sorted :
                    (i < j /\ sorted[i] \in kept) => sorted[j] \in kept
              /\ removed # {} =>
                    \E i \in DOMAIN sorted :
                        /\ sorted[i] \in removed
                        /\ \A j \in DOMAIN sorted : j > i => sorted[j] \in kept
                        /\ ~FitsLimits(kept \cup {sorted[i]})
              /\ FitsLimits(all) => removed = {}

\* Witness of C32: of three detail files, one more than may be, the oldest
\* was removed and the two newer ones remain.
OldestOfThreeRemoved ==
    /\ result # Nil
    /\ LET all == DetailFiles(Deref(args).entries)
           kept == Deref(result).remaining
       IN  /\ Cardinality(all) = 3
           /\ Deref(args).maxFiles = 2
           /\ Cardinality(kept) = 2
           /\ \A f \in all \ kept, g \in kept : f.modTime < g.modTime

\* The calls that have read the state of their target and not yet written it.
BetweenReadAndWrite == {c \in DOMAIN calls : calls[c].pc = "write"}

\* C33: the mutations of the state manager exclude each other, those of
\* InitializeTarget and RemoveTarget too: while a call is between the read
\* and the write of its read-modify-write, no step of another call changes
\* what the store holds for its target, so that a RemoveTarget(t) is not
\* undone by the write of a call that read t before it.
NoMutationBetweenReadAndWrite ==
    [][\A c \in BetweenReadAndWrite :
          calls'[c].pc = "write" =>
              /\ (calls[c].target \in DOMAIN states') = (calls[c].target \in DOMAIN states)
              /\ GetTargetState(states', calls[c].target) =
                     GetTargetState(states, calls[c].target)]_vars

\* The state of t is gone, healthy, checking or cooling with no end: not in
\* timed cooling.
NoLongerTimedCooling(t) ==
    \/ t \notin DOMAIN states
    \/ states[t].status # StatusCooling
    \/ states[t].cooldown_ends_at = Nil

\* C34: when the callback of a fired timer runs for a target that is no
\* longer in timed cooling, or after the checker was stopped, it starts no
\* probe and changes no target state: the fired timer is gone and that is
\* all.
InertCallbackChangesNothing ==
    [][\A r \in BagToSet(timers) :
          (DueEnter(r) /\ (NoLongerTimedCooling(r.target) \/ ~running)) =>
              /\ states' = states
              /\ probes' = probes
              /\ BagCardinality(timers') = BagCardinality(timers) - 1
              /\ \A x \in BagToSet(timers') :
                     x.pc = "probe" => CopiesIn(x, timers') = CopiesIn(x, timers)]_vars

\* Witness of C34: the timer of a target in timed cooling has fired and the
\* checker was stopped before its callback ran.
FiredAfterStop ==
    \E r \in BagToSet(timers) :
        /\ r.pc = "fired"
        /\ ~running
        /\ ~NoLongerTimedCooling(r.target)

\* The key sets, and the attempts a configuration has under one of them.
KeySets == {apiKeys, detailedLogKeys}

AttemptsOf(ctx, keys) == getAttemptsForKey(ctx, keys.attempts)

\* The requests of the attempts one after the other.
RequestsInOrder(attempts) == Concat([i \in DOMAIN attempts |-> attempts[i].request])

IsPrefixOf(a, b) == Len(a) <= Len(b) /\ SubSeq(b, 1, Len(a)) = a

\* C35: within one request and one key set the k-th attempt has index k, the
\* aggregated request is, after every recorder call, the requests of all
\* attempts in the order of their indices, and a recorder call changes the
\* latest attempt only: a request comes as a new latest attempt, a response
\* write (metadata, chunk, error) adds to the response of the latest attempt.
AttemptsAreIndexedAndAggregated ==
    /\ [](\A cfg \in Configs, keys \in KeySets :
             LET attempts == AttemptsOf(GinOf(cfg), keys)
             IN  /\ \A k \in DOMAIN attempts : attempts[k].index = k
                 /\ attempts # <<>> =>
                       /\ keys.request \in DOMAIN GinOf(cfg)
                       /\ GinOf(cfg)[keys.request] = RequestsInOrder(attempts))
    /\ [][\A cfg \in Configs, keys \in KeySets :
             LET before == AttemptsOf(GinOf(cfg), keys)
                 after == AttemptsOf(Deref(gin')[cfg], keys)
                 call == calls'[Len(calls')]
             IN  after # before =>
                    /\ \A k \in DOMAIN after : k < Len(after) => after[k] = before[k]
                    /\ call.op = "recordAPIRequest" => Len(after) = Len(before) + 1
                    /\ call.op # "recordAPIRequest" =>
                          /\ Len(after) = Len(before) \/ before = <<>>
                          /\ before # <<>> =>
                                /\ IsPrefixOf(before[Len(before)].response,
                                              after[Len(after)].response)
                                /\ after[Len(after)].request = before[Len(before)].request]_vars

\* Witness of C35: two requests were recorded and then a response; the
\* response is with the second attempt, the first has none.
ResponseWithSecondAttempt ==
    LET attempts == AttemptsOf(GinOf(Ptr([DetailedRequestLog |-> TRUE, RequestLog |-> TRUE])),
                               detailedLogKeys)
    IN  /\ Len(attempts) = 2
        /\ attempts[1].response = <<>>
        /\ attempts[2].response # <<>>
        /\ attempts[2].index = 2

\* C36: a target has at most one timer that is still to fire, and the entry
\* of the timer map refers to it, so that ScheduleTargetCheck and Stop can
\* cancel it: the callback of a timer that has fired never drops the entry of
\* a newer timer.
PendingTimerIsTheMapEntry ==
    \A t \in Targets :
        /\ LiveTimers(timers, t) <= 1
        /\ \A r \in BagToSet(timers) :
               (r.target = t /\ r.pc = "pending") => r.scheduled

\* C37: a LogRecord that runs with Close never sends on the closed write
\* channel: no call of LogRecord ends in a panic.
LogRecordNeverSendsOnClosedChannel ==
    \A c \in DOMAIN calls : calls[c].op = "LogRecord" => calls[c].pc # "panic"

\* The probe of t ends and its outcome is applied, on either path.
OutcomeApplied(t) ==
    \/ \E r \in BagToSet(timers), healthy \in BOOLEAN :
           r.target = t /\ DueCheckTarget(r, healthy)
    \/ \E p \in BagToSet(probes), healthy \in BOOLEAN :
           p.target = t /\ ProbeCheckTarget(p, healthy)

\* C38: the outcome of a probe never moves into cooling a target that is
\* healthy when the outcome is applied: a target made healthy by ResetTarget
\* or RecordSuccess while the probe was in flight stays healthy when the
\* probe ends, failed or not, on the scheduled and on the on-request path.
OutcomeLeavesHealthyTargetHealthy ==
    [][\A t \in Targets :
          (/\ t \in DOMAIN states
           /\ states[t].status = StatusHealthy
           /\ OutcomeApplied(t))
             => states'[t].status # StatusCooling]_vars

\* The number of probes of t under way: the callbacks of timers and the
\* on-request goroutines that have marked t checking and run CheckTarget.
ProbesUnderWay(t) ==
    BagCardinality([r \in {x \in BagToSet(timers) : x.target = t /\ x.pc = "probe"}
                      |-> timers[r]])
    + BagCardinality([p \in {x \in BagToSet(probes) : x.target = t /\ x.pc = "probe"}
                        |-> probes[p]])

\* C39: at most one probe of a target is in flight at any time, the
\* scheduled path and the on-request sweeps taken together.
AtMostOneProbeInFlight ==
    \A t \in Targets : ProbesUnderWay(t) <= 1

\* The layers of the route for which GetAvailableTargetsInLayer returns a
\* target, no read of the store failing.
LayersWithAvailable ==
    {i \in DOMAIN layers :
        GetAvailableTargetsInLayer(states, pipeline, layers[i], {}) # <<>>}

FirstOf(S) == CHOOSE i \in S : \A j \in S : i <= j

\* C40: the overview agrees with the selection of targets: when some layer
\* has an available target, the active_layer of GetRouteState is the level of
\* the first layer that has one, and every layer it marks active has an
\* available (enabled and healthy) target.
OverviewAgreesWithSelection ==
    (result # Nil /\ args # Nil /\ Deref(args).op = "GetRouteState") =>
        /\ LayersWithAvailable # {} =>
              Deref(result).active_layer = layers[FirstOf(LayersWithAvailable)].level
        /\ \A i \in DOMAIN layers :
               Deref(result).layer_states[i].status = "active" =>
                   i \in LayersWithAvailable
====
